# open-Xdownload in TLA+

Specifications of the server of open-Xdownload, an archiver of X (Twitter) media:
a Go process with a SQLite database, an HTTP API, a scheduler with job goroutines,
and a React page that follows the server over Server-Sent Events. The
specifications are about control: who may change which row when, in which
interleavings, and what a crash or a lost call leaves behind. Names, URLs, messages,
progress and layout are abstracted.

## 1. Inventory

| Component | State | Operations | What is hard |
|---|---|---|---|
| **Task queue and scheduler** `internal/jobs/manager.go`, `internal/storage` | `jobs` rows; `Manager.active` (id -> cancel function); automatic-retry windows; `wake` channel | create, batch create, retry, cancel, retry-now; `runOnce`: reserve automatic row, free slots, claim, start; goroutine: first save, progress saves, outcome, interrupt, finish; requeue at start; prune | every operation is several steps in different transactions and mutex sections; one row (automatic retry) is reused by successive goroutines; shutdown cancels contexts but not writes; saves that fail are only logged |
| **Dashboard counters** `storage/counters.go` | one row of totals | triggers on insert, update, delete; recount at open | materialised and floored at zero, so an error hides and stays |
| **Archive schedules** `manager.go`, `storage.go`, `httpapi` | `archive_schedules`: switch, `next_run_at`, `last_job_ids`, `claim_version` | create, edit, delete, run now; list due, check last jobs, claim, postpone | read, check and claim are three transactions, several readers at once |
| **Event bus, SSE** `jobs/events.go`, `httpapi` `events` | set of subscriber channels (64 of 64 events), closed flag, dropped counter | subscribe, unsubscribe, publish, close all; handler loop | non-blocking send drops; double close; revoked session |
| **Dashboard cache of the page** `apps/web/src/lib/useDashboardEvents.ts` | cached pages of jobs, totals, connection state | apply event, reconnect, delayed refreshes | dropped events, late responses, reordering |
| **Media archive** `manager.go` `downloadMedia`, `downloader`, `filestore` | files; `downloads`, `failed_media`, `unavailable_media` rows | look up, download to a temporary file, publish, deduplicate by content, record | file and row are two systems; crash in between; two URLs of one content |
| **Keyed locks** `lockMedia`, `lockUser` | tables key -> (token, waiters) | lock, release, abort, evict | eviction racing a new waiter, cancelled waiters |
| **Incremental cursor** `archiveTweetsWithSeen` | `user_entities.last_seen_tweet` | archive a batch, advance | advance exactly when every failure of the batch is safely queued |
| **Failed tweet queue** `retryFailedTweets`, `rememberFailedTweet` | `failed_tweets` rows with backoff | enqueue, list due, retry, touch, delete | starvation by a failing head, loss, duplicates |
| **User entities, renames** `ensureUserEntity`, `renameEntityDir` | directory, entity row, recorded paths | rename, rewrite, roll back | crash between rename and rewrite |
| **X client pool** `xclient` | per client: disabled until, limits per path; round-robin index | select, before/after/refund/mark, disable, enable, hand over | state read client by client while others change it; bounded waits |
| **Library index cache** `storage/library_page.go` | snapshot with generation and age | get, build, invalidate | a build racing a write |
| **Poster cache** `httpapi/server.go` | calls in flight, failures with expiry, limiter, files | single flight, negative cache | leader failing, late negative entry |
| **Sessions** `httpapi/auth.go` | account, session key, revocation channel | setup, login, change password, authenticate | check then act across a mutex and the database |
| **Configuration, download roots** | config row, roots | patch, seed, prune | read-modify-write |
| Parser, request building, naming, HTTP plumbing, TLS, compression, migrations, pages | none of their own | | sequential data handling |

How they interact: HTTP handlers and the scheduler share the database (one writer at
a time, `_txlock=immediate`) and `Manager.mu`; job goroutines write through the same
store with a context that is never cancelled; every change is published on the event
bus; the page combines events with polling; schedules and the automatic retry create
ordinary jobs; a process lock allows one process per data directory.

Each component's correctness, in a sentence: a job is worked on by one goroutine at a
time and always ends, what the user was told stays true, counters equal rows; a
schedule runs one batch at a time and only when due; events may be lost but views
converge; a record always points to a file and a content is kept once; the cursor
never skips an unqueued failure; a revoked session sees nothing more; a limited client
is not used and a usable one is found. The hazards behind these are listed, at their
lines, in `PROJECT.json`.

## 2. Modules

| Module | Models | Role |
|---|---|---|
| `JobQueue` | task queue, scheduler, counters, process life | detailed specification |
| `JobLifecycle` | what the task queue promises | abstract specification, refined by `JobQueue` |
| `JobQueueProofs` | | inductive invariant, safety theorems, refinement of `JobLifecycle` |
| `ArchiveSchedule` | archive schedules | detailed specification |
| `ArchiveScheduleProofs` | | inductive invariant, safety theorems |
| `KeyLock` | `lockMedia`, `lockUser` and their release | detailed specification |
| `KeyMutex` | what they promise | abstract specification, refined by `KeyLock` |
| `MediaArchive` | `downloadMedia`: files, rows, publication, deduplication | detailed specification |
| `MediaArchiveProofs` | | inductive invariant, safety theorems |
| `ArchiveJob` | what a job does: timelines, cursor, queue of failed tweets, verdict | detailed specification |
| `ArchiveJobProofs` | | inductive invariant, safety theorems |
| `ClientPool` | `internal/xclient`: selection, hand-over, rate limits | detailed specification |
| `ClientPoolProofs` | | inductive invariant, safety theorems |
| `EventStream` | event bus, SSE handler, revocation of sessions | detailed specification |
| `LibraryIndex` | the cached list and snapshot of the media library | detailed specification |
| `PosterCache` | posters fetched on demand, one fetch at a time each | detailed specification |
| `UserDirectory` | the directory, rows and links of a user whose title changes | detailed specification |
| `Dashboard` | the page's cache of the jobs and of the counters | detailed specification |
| `MCMediaArchive`, `MCArchiveJob` | | the functions on media and tweets that the runs use |
| `MCSafeParts`, `MCLiveParts` | | components that share nothing, checked by one configuration |
| `SafePartsProofs` | | invariants and theorems of `LibraryIndex`, `PosterCache`, `EventStream`, `UserDirectory` and of `MCSafeParts` |
| `LivePartsProofs` | | invariants and theorems of `KeyLock` (with its refinement), `Dashboard` and of `MCLiveParts` |

`MediaArchive` uses the two kinds of lock as `KeyMutex` promises them: a guard that nobody
holds the key. `ArchiveJob` uses a call of `downloadMedia` as `MediaArchive` describes its
results, and starts jobs one at a time as `JobQueue` establishes (`SerialExecution`).
`UserDirectory` lets one job at a time at a user's directory, which is `lockUser`.
`MCSafeParts` and `MCLiveParts` put components that share no state under one configuration:
the variable `part` is chosen in the initial state and says which of them runs; the others
stay in one initial state. The states are the sum of those of the parts, not the product,
and each invariant is about one part. The `MC*.cfg` files instantiate the modules for TLC: their parameters
are constants, no definition is replaced. Operators named `Mut...` are plausible
wrong versions of the definition that follows them; nothing uses them but the runs
that check that each property can fail.

### JobQueue

One action per atomic step of the program: one SQL statement or transaction, or one
section under `Manager.mu`. What the code does in two steps is two actions.

* Rows: `status`, `target` (the pair of kind and input), `nextId`, `counters`. A user's
  target is a model value; `AutoInput` is the automatic retry job. The triggers are
  `OnInsert`, `OnUpdate`, `OnDelete`, applied in the same step as the statement.
* Scheduler: `sched` walks through `runOnce` - "config" (`CheckAutomaticRetry`), "reserve"
  (`ReserveAutomaticRetryJob`), "slots" (`CheckSlots`), "claim" (`ClaimPendingJobs`), "start"
  (`StartJob`). `claimed` holds rows between the claim and `startJob`.
* Goroutine of a job: `worker[j]` - "started" (`jobCanceled`), "checked" (the first save),
  "working" (progress saves, `ObserveCancel`, `Decide`), an outcome to be saved,
  "interrupted" (`handleInterrupt`), "canceling", "exiting" (`finishJob`). `active` is
  `Manager.active`; `ctxDone` the goroutines whose context is cancelled.
* Cancel: `CancelCommit` (the conditional UPDATE), `CancelContext` (the look-up in
  `active` and `cancel()`), `CancelPause` (automatic job only), per client.
* Process: `Stop` (SIGTERM), `Halt` (drained, timed out, or a crash, at any point),
  `Boot` (recount), `RequeueInterruptedJobs`, `RequeueFails`.
* Failed writes: `SaveOutcomeFails`, `ClaimLost`, `RequeueFails`. `stranded` is a history
  variable: the rows such a failure left active without a goroutine.
* Time is abstracted: the windows of automatic retry open when the code opens them and
  end at any time (`WindowEnds`).
* Claim order is by `created_at`; rows are created in id order and a reset row keeps its
  `created_at`, so the model orders by id.
* What a goroutine does besides saving is abstracted to "working"; every one of the
  six kinds of job has this shape.

### JobLifecycle

A job waits, runs under the only lease, and settles; the oldest waiting job gets the
lease; only its holder moves it to an outcome; users cancel; a user's settled job never
changes; a crash loses the lease and recovery makes running jobs wait again.
`JobQueue!KeepsLifecycle` is this specification under the mapping: pending is waiting,
resolving and downloading are running, the lease is `claimed \cup active`.

### ArchiveSchedule

`switch`, `next`, `last` are the columns enabled, next_run_at and last_job_ids.
`claim_version` only matters by equality with a snapshot, so the model keeps the set
`fresh[s]` of readers whose snapshot has the row's version; an increment empties it.
This is exact and keeps the model finite, so liveness can be checked. `next` is "due",
"soon" (a postponement) or "full" (a whole interval). Readers are the scheduler, with a
list of snapshots, and clients in `RunArchiveScheduleNow`; each reads, checks the jobs of
its snapshot (`CheckLastJobs`) and claims (`Claim`), with the row changing in between.
Job ids are reused once nothing refers to them, which AUTOINCREMENT makes
indistinguishable. The limit of ten schedules per pass is left out.

### KeyLock

One action per section under the mutex of the table and per receive from the channel:
`Enter` (find or create the entry, count oneself), `Take` (the select gets the token),
`Release`, `Abort` (the select saw the cancelled context, possibly with a token there).
Entries are heap objects, `Fresh` ones are those nothing refers to, so a goroutine that
waits on an evicted entry would be seen. `KeyMutex` knows keys and holders only.

### MediaArchive

One action per system call on files, SQL statement or lock operation of `downloadMedia`,
`skipArchivedMedia`, `skipSameContentMedia`, `DownloadWithOptions`, `publishTempFile`,
`publishFile` and `removeIncompleteLocalTarget`. `at[w]` is the place of goroutine `w` in
the call, `item[w]` the pair of tweet and URL, `path[w]` and `hash[w]` the file it is about
to record, `copies[w]` the rows it has found and not yet looked at, `replace[w]` the flag
`replaceExisting`.

* Four constants give the data: the URL and the name of an item, the media identity and
  the bytes of a URL. Names collide, two URLs may have one identity, two identities one
  content; the code is about exactly these coincidences.
* A file is a name, a number and a content. Different contents have different lengths, so
  a comparison of lengths (`FoundComplete`) compares contents; without a Content-Length the
  same file counts as incomplete, which `Fetch` and `StatStale` leave open.
* `Publish` is the link, or, on file systems without hard links, the creation of a
  placeholder that `RenameOver` replaces.
* The context of the job may be cancelled while the media lock is awaited (`CancelWait`) or
  during the request (`FetchFails`); look-ups and saves run with a context that is not.
* `StatementFails`, `RenameFails` and a failing look-up in `CheckOwner` are the errors of
  single statements; `Crash` ends all calls and leaves disk and database as they are;
  `UserDeletes` is a user who tidies up the download directory.
* Left out: posters of videos, `failed_media` (a log), temporary files, and the second
  attempt of the failed tweet queue to mark a URL whose marking failed
  (`manager.go:1602`), which happens outside the locks.

### ArchiveJob

What `Manager.process` does for one job after the other. Tweets are the numbers of their
ids. An action is one answer of X, one call of `downloadMedia`, or one SQL statement; in
between users post, delete and pin tweets and remove rows of the queue.

* A scan: `FetchPage` is a page of the timeline with the tweets that are kept of it (`Kept`)
  and the decision to go on (`Stops`: `shouldStopAt` and the look at the tail of the first
  page); `FetchEmptyPage`, `TimelineEnds` and `CutShort` are the other ends. `Claim` picks the
  media of the batch, `SaveMedia`, `SkipMedia` and `RememberMedia` are the outcomes of a
  media. The cursor (`last_seen_tweet_id`) is moved by two statements: `ReadCursor` is the
  SELECT of the row (`row` is what was read last), `AdvanceCursor` the UPDATE, which has no
  condition but the id and writes the newer of what was read and what was seen.
* The queue of failed tweets: `queue` with `ahead[t]`, the rows that come before the row of
  `t` in the order of `updated_at`; `resting` are rows in their pause. `ListFailedTweets` reads
  the first rows, `RetryTweet`, `RetryMedia`, `RetrySucceeds` and `RetryFails` work on them,
  `TouchFailedTweet` puts a row last. The length of a pause is abstracted to its end.
* `Upset` is an interruption or a failed statement at any point. `missed` is a history
  variable: tweets before which a scan was cut short; `forgone` rows the user removed.
* Jobs of a single link and of a single media URL are `ParseTweetLink`, `LinkMedia`,
  `ProcessMediaURL`. Users of a list or of the followed ones are taken in any order.

### ClientPool

`at`, `mode`, `client` are the place of the one call under way, its kind (the whole pool, one
client, a selected one, or one after the other) and the client it is with. `Select`, `Scan`,
`AllOut`, `SelectAgain` are the steps of `Pool.Select`, which looks at the clients one by one;
`OpenRequest`, `Sleep`, `Wake`, `Send` are `doOnce` with the limiter's `before`; `AnswerOK`,
`AnswerLimited`, `AnswerError`, `AnswerDenied`, `AnswerOther`, `NoAnswer` are the answers,
with `After`, `Refund` and `Mark` of the limiter. An answer whose body cannot be read is an
error whatever its status, so a limit that comes with it is not marked (`AnswerError` with
`Refused`). `paused` are the clients whose limiter has taken over a pause that has not ended:
after a limit, a challenge page, or a Retry-After without X's numbers, which the code ignores
beside them. `AfterLimit` and `AfterError` hand the request
over. `budget` is what the client believes X accepts, `quota` what X accepts. At any step a
check of the settings page may disable or enable a client (`Check`), the settings may be
saved (`Reset`), a window may end (`WindowEnds`) or a cooldown (`CooldownEnds`), and the job
may be cancelled (`Cancel`). `spare` is a history variable: the clients that were usable at
every moment since the last look at all clients began.

### EventStream

A session is a pair: the key in the account row and the revocation channel, which
`RequireLogin` reads under one read lock; both are numbered by the password changes before
them, and an event by the revocations before its publication. `UpdateAccountPassword` and
`CloseAuthChanged` are the two steps of a change under the write lock. `Subscribe`, `Unsubscribe`,
`CloseAll` and `PublishEvent` are the methods of the bus (`Publish` in the code), each one
section under its mutex; `Greet`, `ReceiveEvent`, `CheckRevoked`, `WriteEvent` and `EndStream` are
the loop of the handler. `panicked` records the two ways to misuse a channel.

### LibraryIndex

Saves of media (`PublishFile`, `RecordFile`) and the change of the download directory
(`UpdateConfig`) each commit first and then invalidate: `AddGeneration`, and for the list
`ClearList`. A reader peeks, waits for `libraryBuildMu`, looks again, and builds query by query:
`LoadGeneration`, `ReadRows`, `ReadConfig`, `ReadKnown`, `WalkDirectory`, `StoreList` or
`StoreSnapshot`, `QueryEntries`. The order of the queries differs for the list and the
page, as in the code. `promised[r]` is what had returned when the request began. The maximum
age of a snapshot only drops it earlier and is left out, as are filters and paging.

### PosterCache

`StatPoster`, `LookUpFailure`, `JoinFlight`, `AcquireSlot`, `FetchPoster`, `FetchPosterFails`, the two
steps at the end of a flight (`ForgetFlight` takes it out of the table, `CloseFlight` wakes the
waiters) and `NoteResult`. Entries expire at any time and posters may go from disk. The wait
for a place is bounded by the context of the fetch, which is `FetchPosterFails`.

### UserDirectory

One user whose title at X changes. `LocateUserEntity`, `Rename`, `SourceGone`,
`RewriteDownloadPathPrefix`, `Rollback`, `EnsureUserEntity` are `ensureUserEntity` and
`renameEntityDir`; `RefreshLinkRow`, `SyncLink` the links of all lists, `EnsureUserLink` and
`MakeUserLink` the link of the list that is being archived; `SaveFile` a call of `downloadMedia`.
`BreakOff` is a crash or a failed step between any two. `torn` is the name on disk of a
rename whose rewrite was lost; `strayed` says that a job with yet another title came before
it was mended.

### Dashboard

The server's rows and events (`NewJob`, `UpdateJob`, `ResetJob`, `AttachMeta`, `PublishJob`), the
connection (`Connect`, `Open`, `Break`, `Renew`) with a bounded channel that drops
(`WireSize`), the queries (`PollJobs`, `PollMeta`, `AnswerJobs`, `AnswerMeta`, `FetchFails`), the
two delayed refreshes (`Refresh`, `FetchExtra`) and the application of an event
(`ApplyCreated`, `ApplyUpdated`, `ApplyMeta`, `Shift`, `MergeNewerJobs`). Abstracted: the page
shows every job and no job is deleted; a batch of created jobs is one event each; two
updates of a job are a millisecond apart at least, so `updatedAt` orders them; an answer is
as old as its request; claims and requeues send no event, as in the code. `missed` is a
history variable: why the list may have missed an update since it was last refetched.

## 3. Runs

| Run | Configuration | Shows |
|---|---|---|
| `jobqueue` | 3 rows, one user target and the automatic job, one cancelling client, one shutdown or crash, no failed write; about 939 000 states | `TypeOK`, `CountersMatch`, `SerialExecution`, `NoUserOrphan`, `OneActiveAutoRow`, `VerdictStable`, `KeepsLifecycle` |
| `jobqueue_live` | 3 rows, two user targets, one client, one shutdown or crash, one failed write, automatic retry off; 43 000 states | `NoOrphan`, and under fairness `JobsSettle` and `CancelFreesSlot` |
| `jobqueue_orphan` | 2 rows, automatic retry on, no shutdown, no failed write | `NoOrphan` is violated: finding 1 |
| `schedule` | one schedule of one or two targets, one client, one mishap (failed statement or restart); 184 000 states | `TypeOK`, `OneBatch`, `StartsOnlyDue`, and under fairness `DueRuns` |
| `schedule_edit` | one schedule, one client, no mishap | `EditKept` is violated: finding 2 |
| `media_live` | 2 goroutines, 3 items, no hard links, one crash, failed statement or deletion; 335 000 states | `NoForgottenFile`, and under fairness `CallsReturn` |
| `media_deleted` | 1 goroutine, 3 items, one deletion, no crash, no failure | `SkipIsTrue` is violated: finding 3 |
| `archive_job` | one user, three tweets (one unreadable, media of every fate), pages of one tweet, one mishap; 363 000 states | `TypeOK`, `NoGap`, `CleanVerdict`, `CursorNeverBack`, and under fairness `EveryRowTried` |
| `client_pool` | two clients, a limit of two requests, two attempts, one wait, one lost answer per window; 1 077 000 states | `TypeOK`, `SpareIsUsed`, `BudgetTrue`, `NoHammer`, and under fairness `CallReturns` |
| `safe_parts` | the archive: 2 goroutines, 3 items, hard links, one crash and one failure; the index: 2 readers, one save, one new directory; posters: 3 requests, 2 posters, one place; the directory: 3 titles, one taken, 2 files, 2 failures; streams: 3 requests, 2 places, one password change; 2 073 000 states together | `PartsTypeOK` (all types), `RecordTrue`, `OneCopy`, `LostIsSkipped`; `ListingCurrent`; `OneFetch`; `PathsLead`; `StreamSafe` |
| `live_parts` | locks: 3 goroutines, 2 keys, 3 entries; the page: 2 jobs of which one is running at the start (so that a late, older event meets a newer copy), 2 updates, one fault, a channel of one event; 333 000 states together | `PartsTypeOK`, `NoLeak`, `ReleaseIsPrompt`, `KeepsMutex`, and under fairness `WaitEnds`; under fairness `Converges` |
| `dashboard_dropped` | one job, three updates, no broken connection | `ListConverges` is violated: finding 4 |

Why the bounds are enough. Jobs interact through the slot, the claim order and the
automatic row: three rows give a job running, one waiting before it and one behind it,
or the automatic row and a user's retry of it beside a user job. A second cancelling
client adds nothing the first one, acting on the same row again, cannot do to safety.
One halt is enough for every recovery: the state after `RequeueInterruptedJobs` has no
process state left, only rows, and rows of every status occur before it. Schedules share
nothing but the list of the scheduler's pass, and the delay a list causes is already
there with one. Six job ids are more than a row, a client's and the scheduler's snapshot
can refer to, so a claim never lacks ids. Three goroutines on one key are a holder, a
waiter and one who gives up or comes anew; a second key lets an evicted entry be used
for another one; three entries are as many as goroutines can hold, one who enters holds none,
so a fresh one is always there.
The three items of `MCMediaArchive` have one name; two share a content under two
identities, two an identity with two contents, so every comparison in the code has a case
where it tells items apart and one where it does not. Three numbers per name (0, 1, 2;
two in `media_live`) run out only after a crash, which is how the end of the numbers is reached. Two
goroutines are what two jobs would be; the scheduler runs one job at a time and a job
takes its media one by one, so today one call is under way, but `downloadMedia` is
written, and tested (`manager_test.go:1482`, `1918`), for concurrent calls, and the
locks have no other purpose.

Users of `ArchiveJob` share only the order in which they are taken; one user's three tweets
give a first page, a later one and the end, a tweet newer than the scan and one behind the
cursor, and with one row per batch the queue has a head and a row behind it. The oldest
tweet is unreadable, the next has a media that may be lost, the newest one of each remaining
kind. Two clients are one that is passed over and one that is taken; a third only
lengthens the scan, and the proofs hold for any number. A limit of two has the
threshold 1 of `ratelimit.go` and a budget above, at and below it. Two readers are a builder
and one who waits for it, or one who reads an index the other stored; one save and one
change of the directory each pass before, between and after every two queries. Three
requests for posters are a leader, a follower and one for the second poster that needs the
only place, or one that comes between the two steps that end a flight. Three titles are
the old, the new and the one after a failed rename, or a name that is taken. Three streams
compete for two places; one password change divides them into old and new sessions.
Two jobs on the page are one that is known and one that is not; a channel of one event drops
from the second on, where the program's drops from the sixty-fifth on. The proofs of section 5
have no bounds.

`CHECK_DEADLOCK` is off in the runs of `ArchiveSchedule`, where nothing is left to do once the
schedule is deleted, and in `archive_job`, where everything is posted and archived at last.

## 4. Fairness

`JobQueue!Fairness`: weak fairness of the scheduler's tick and steps (a ticker fires
every two seconds), of every goroutine (the Go runtime schedules it; every network call
has a timeout, so "working" ends), of the steps inside a cancel request, of the end of a
process that was told to stop (`managerStopTimeout`), and of the start and requeue
(a supervisor restarts the process). Users' requests, crashes and failed writes are not
fair. Neither are a goroutine's panic, its failed write and its progress reports: the fair
part of a goroutine is `WorkerProceeds`.

`ArchiveSchedule!Fairness`: weak fairness of the scheduler's pass, of time passing, and
of jobs ending, which is what `JobsSettle` establishes for `JobQueue`.

`KeyLock!Fairness`: weak fairness of the release, because what a holder does has
timeouts, and strong fairness of `Take`: Go hands the token of a channel to receivers in
the order in which they came, so a waiter may see it taken, but not for ever. Nobody has
to ask for a lock or to give up.

`ArchiveJob!Fairness`: weak fairness of a job's steps whose answers come, of the end of
pauses, and strong fairness of the automatic retry's start: `runOnce` looks for it
again and again, and it gets its turn because jobs are claimed in the order of their creation and
every job settles (`JobsSettle`). With automatic retry off nobody has to retry. Posts,
deletions, mishaps, empty pages and the user's jobs are not fair.

`ClientPool!FairSpec`: weak fairness of a call's next step: timers fire and each request is
answered or times out. Nothing is assumed of X, of windows, cooldowns or checks.

`Dashboard!DashFairness`: weak fairness of publication and delivery, of the polls and their
answers, of the timers, and of the reconnection of the EventSource. Breaks, failed requests
and updates are bounded, so they cease. `MCLiveParts` states it and that of `KeyLock` for the
part that runs.

`MediaArchive!Fairness`: weak fairness of the steps of a call, strong fairness of the two
lock operations, which is what `KeyLock!WaitEnds` establishes. Failures, cancellations,
crashes and deletions are not fair; calls need not be made.

## 5. Proofs

Checked by TLAPS for all constants that satisfy the named assumptions of the modules:
`BoundsAssumption`, `AutoAssumption`, `SettingAssumption` (`JobQueue`); `ReaderAssumption`,
`JobsAssumption` (`ArchiveSchedule`); `ProcAssumption`, `EntryAssumption` (`KeyLock`);
`DataAssumption`, `NumberAssumption`, `NoneAssumption` (`MediaArchive`); `DataAssumption`,
`LimitAssumption` (`ArchiveJob`); `SizeAssumption`, `OpenAssumption` (`ClientPool`);
`StreamAssumption`, `LibraryAssumption`, `ShotAssumption`, `PosterAssumption`,
`DirectoryAssumption` and `DashAssumption`. They say that bounds are numbers, that a marker such
as "nobody" is not a member of the set it is beside, and that the sets that are counted are
finite.

Every invariant and every action property that a passing run checks is a theorem
(`NoOrphan` for automatic retry switched off, as in its run), and so are the two
refinements, `KeepsLifecycle` and `KeepsMutex`.

`JobQueueProofs`. `TypeCorrect` is inductive by itself. The other invariants are not; they
follow from

    IInv == TypeOK /\ FreshIds /\ CountersMatch /\ SchedulerKnows /\ NothingLeft
            /\ LatestAuto /\ StopsAfterVerdict /\ NoUserOrphan

* `FreshIds`: ids from `nextId` on have no row and nobody refers to them.
* `SchedulerKnows`: when `runOnce` goes to claim, no goroutine is active, and what it
  claimed is not yet registered; only this makes the check of the slot in one step valid
  in the next two (`SerialCorrect`).
* `NothingLeft`: a process that is down or booting has no goroutine and no claim.
* `LatestAuto`: only the newest automatic row can be active (`OneAutoCorrect`).
* `StopsAfterVerdict`: a goroutine whose user row is already terminal only reads,
  repeats the status or leaves; with the guard of `UpdateJobAndGet` this gives
  `VerdictCorrect` and, for goroutines that leave without writing,
  `NoUserOrphanCorrect`.

Every step is first classified by what it does to the rows (untouched, one inserted,
one written, one reset, one deleted, all requeued: `EveryStepIsARowStep`); the counters
are proved against that classification with the cardinality theorems, and the other
conjuncts action by action.

`NoOrphanCorrect` assumes that automatic retry cannot be switched on (`TRUE \notin
AutoRetryFailed`): then `NoAuto`, no automatic row and no reservation, is invariant, and
what holds of the users' rows holds of all. With it on the theorem would be false: finding 1.

`LifecycleCorrect == Spec => KeepsLifecycle` follows from the same invariant: every action
maps to one action of `JobLifecycle` or to a stutter.

`ArchiveScheduleProofs`. `IInv` adds to the types: `CurrentSnapshot` (a snapshot whose
version is current shows the row's last jobs), `StaysDue` (as long as the scheduler's
snapshot is current the schedule is due), `SawThemOver` (the jobs a reader saw over stay
over until it claims) and `Unstarted`. Together they say why a check made outside the
transaction is still good inside it: `OneBatchCorrect` and `StartsCorrect`.

`LivePartsProofs`, the locks. `NoLeak` needs the count: `CountedUsers` says `waiters` is the
number of users of the entry, so who counts down to zero is alone (`LastIsAlone`, by the
cardinality theorems); `Registered` says that every user uses the entry the table holds,
`Distinct` that no entry serves two keys, `OneHolder` that a holder has the only token.
`MutexCorrect` maps every step to a step of `KeyMutex`: the token is free only if nobody holds
the key.

`LivePartsProofs`, the page. `PageIsPast` says that what the page shows of a job is a row the
server had: its version is not above the server's, and with the same version it is the
server's row. `PageNeverBack` says that a job never goes back to an earlier row, nor off the
page. They need the same of everything on its way to the page, the events that wait for
publication or are on the wire and the answer of a query (`EventsArePast`, `AnswerIsPast`),
and that a list has the first jobs (`FirstOnes`): an answer without a job that the page has
then has no later one either, so `MergeNewerJobs` keeps the page's. `VersionsLeft` is the
pigeonhole argument that bounds versions. This is the safety half of what the page promises;
that it catches up is `Converges`, which is model-checked.

`MediaArchiveProofs`. The invariant has three layers. For every behaviour: the locks
exclude calls of one media and of one content (`MediaExclusive`, `ContentExclusive`), so
what a call read of its own item stays true (`NotLost`, `OwnCopy`: `LostCorrect`). For
behaviours without crash and failure: a file is in flight or has a row that no call is
about to overwrite (`Kept`: `NoForgottenCorrect`); the plain statement is not inductive,
for a call that has found its own file missing overwrites its row later. For behaviours
without deletions, crashes and failures included (`Undeleted`): a call past the look at
its own row has none, so rows are only added (`Unrecorded`); therefore it never owns a
file in its way and never removes one (`NoReplace`), the rows it has found stay rows
(`CopiesAreRows`), the file it has published is nobody else's (`MineIsMine`), and under
the content lock it knows every row of its content (`KnowsContent`). `RecordCorrect` and
`OneCopyCorrect` follow.

`ClientPoolProofs`. Three arguments over common types. `BudgetTrue` needs `Charged`: with a
request in flight the budget was charged for it, so a refund brings it back to what it was
and not above (`BudgetCorrect`). `NoHammer` needs `PausedIsOut`: a pause leaves no budget and
nothing but the window's end restores one, so a paused client never passes `before`
(`PauseCorrect`). That is about the pauses the limiter keeps: a Retry-After beside X's numbers,
a limit whose body cannot be read and what exceeds 15 minutes (`maxRetryAfter`) it does not. `SpareIsUsed` needs `PassedOver`: none of the clients a scan has passed was
usable all the time since it began; as a scan starts anywhere and wraps, that it sees
every client is the arithmetic lemma behind `SelectCorrect`.

`ArchiveJobProofs`. `NoGap` (the cursor never passes a media that is neither settled nor queued)
needs to know, at every place of a scan, where the tweets above the old cursor are:

    IInv == TypeOK /\ Placed /\ Handled /\ NoGap /\ ScanOK /\ ClaimsOK /\ CleanVerdict

* `Placed` ties the place of the job to its kind and to what it has in its hands.
* `Handled`: the media of the tweet at hand before the next one are done with.
* `ScanOK`, while a scan is on: nothing between two shown tweets was left out (`NoHole`), what
  was shown above the cursor is kept for the batch or settled (`Above`), and after the last
  page what was not shown below it is a tweet the scan is known to have missed (`Below`). So when the cursor
  moves everything up to its new place is accounted for.
* `ClaimsOK`: what a job has claimed is there, lost, given up by the user, or a row of the
  queue that is the job's own. This gives `VerdictCorrect`.

`CursorCorrect` needs to know that the UPDATE, which has no condition, still meets the row the
job has read: `Placed` holds `row = cursor[user]` from the first look at the row to its
write, and what is written is no older than `row`, though the newest tweet found may be. In the
code that is because one job runs at a time and holds the user's lock, and in the model because
no other action writes the cursor. The least and the greatest of a set of tweets (`MinIsLeast`,
`MaxIsGreatest`) come from the well-foundedness of inclusion on finite sets.

`SafePartsProofs`, the library. For the index the invariant compares three views of the
store: what is committed, what has been counted by the generation (`CountedRows`,
`CountedDir`) and what has returned (`SavedRows`, `SavedDir`). A reader that builds for the
current generation has everything that is counted (`ReaderOK`), a snapshot of the current
generation too (`SnapshotOK`), the cached list everything that has returned (`ListOK`):
`ListingCorrect`. The types hold more than types: `Counting` (the generation is the number of
saves and changes that have counted) bounds it, `OneBuilder` says that one reader at a time
builds. For posters, `LedFlights` says that a flight in the table has a leader that is at work
for this poster and `Followers` who waits; `OneFetch` with them is inductive: `PosterCorrect`.

`SafePartsProofs`, the streams. `Locking` says that a password change is alone and that the
row is one change ahead of the channel between its two steps, `Revocation` that the closed
revocation channels are exactly the earlier ones, `NoFuture` that a buffered or received
event is no newer than the last revocation. A handler whose look finds its channel open
therefore holds an event of its own time. That the bus knows only open channels gives the
other half of `StreamCorrect`.

`SafePartsProofs`, the directory. `PathsLead` is about the moment a job saves; `FilesAgree`
says what holds before: between the steps of a rename the disk has the new name and the
rows the old one (`RenamedTo`), after a crash there a job that has the torn title comes to the
rows again and not to the disk, and otherwise rows and disk are equal, unless `strayed`.
`LinkLeads` follows the link of the list from the refresh on, `NamesKnown` and `OnDisk` say that
the directory a job goes on with was made. A move and a move back cancel out because the
new name was nobody's (`MovedBack`), which is why the rename must not replace anything.

Both modules end with the composition: `PartsCorrect` says that the behaviours of `MCSafeParts`
and of `MCLiveParts` are behaviours of each component, and `PartsTypeCorrect` collects the types.

Model-checked only: the liveness properties (`JobsSettle`, `CancelFreesSlot`, `DueRuns`,
`WaitEnds`, `CallsReturn`, `EveryRowTried`, `CallReturns`, `Converges`), which are out of the
prover's reach. Proved without a run of their own: `PageIsPast`, `PageNeverBack`,
`OneBuilder`, and mutual exclusion of `KeyMutex` (`ExclusionCorrect`).

## 6. Findings

1. **A late cancel stops the next run of the automatic retry row** (`jobqueue_orphan`).
   `CancelJob` commits the cancel, then looks up the goroutine to stop. In between the
   scheduler may reset the canceled row, claim it and start its next goroutine. That
   goroutine is stopped although its row is not canceled; `handleInterrupt`, meant for
   shutdown, writes nothing; the row stays resolving, counts as active, and automatic
   retry does not run again until the process restarts or the user cancels that row once
   more. User jobs are safe: their rows
   are never reset (`NoUserOrphan`, proved).
2. **A postponement overwrites an edit** (`schedule_edit`). The claim of a schedule is
   void when the row's version moved, the postponement of a busy schedule is not: it has
   no condition but the id, so it replaces the next run a user's edit or manual run has
   just set.

3. **A replaced file counts as archived** (`media_deleted`). The skip of a media that has a
   row asks only whether there is a regular file at the row's path. After the user has
   deleted it, the media of another tweet with the same text may take the free name; from
   then on the first media counts as archived, no copy of it is left, and it is never
   downloaded again. The row's size and hash, which would tell, are not compared. The other
   places that may meet a foreign file ask for its owner (`ExistingFileOwner`).

4. **A dropped event leaves the list of jobs stale** (`dashboard_dropped`). The list is
   polled only while the cached counters show an active job. When the event that ends the
   last one is dropped by a full buffer, the poll of the counters brings zero and stops the
   poll of the list, which goes on showing the job as active. The comments of the bus
   promise that polling makes up for dropped events; for the counters it does
   (`Converges`).

Other places where the code differs from what is said of it, or accepts a loss, met while
modelling. The models contain them; no run of their own is spent on them.

* `client.go:1090` `yieldsOnRateLimit` is never called: a request that meets a limit waits in
  `before` although the comment at 1082-1084 says the pool hands it on.
* A client disabled between `Select` and its request ends the call with
  `ErrClientDisabled` although another cookie is usable, against the comment near
  `client.go:108`; so does a limit whose mark has expired before it is looked at. A client
  disabled while it waits in `before` still sends.
* `manager.go:1731-1735` says a rewrite after a rename that did not happen matches no row. After
  a crash between rename and rewrite and another change of the title it does not mend the
  rows (`strayed`).
* A crash between the update of a link's row and the removal of the old link leaves the old
  link for good; with a taken title each archive of the list leaves two.
* `retryFailedTweets` ends a tweet at its first failing media, so a media of a type that is
  never accepted keeps the later media of its tweet from being tried.
* A scan that ends with three empty pages, a repeated page cursor or a thousand pages leaves
  older tweets unfetched while the cursor moves past them (`missed` in `NoGap`).
* The total of a library page may count a file twice, or miss one in the list, for the
  moment between two queries.
* The page's list also misses an event published before its first subscription, an update
  of a job whose creation event is late or was dropped, the reset of the automatic row
  (published as a creation of a job it knows), and a change whose refetch failed; the next
  poll mends them while a job is active (`Converges` says which).

A crash between the publication of a file and its row, or a failed statement there, leaves
a file without a row; the next call takes it for another tweet's and saves a second,
numbered one. The code accepts this; `NoForgottenFile` is stated for behaviours without.

A comment that disagrees with the code without consequence: `storage.go:1758-1761` says
disabling a schedule increments the version; `UpdateArchiveSchedule` does not, and
`storage.go:1751-1753` says so. A manual run with a snapshot from before the disable
therefore succeeds, which is allowed; the scheduler's claim checks the switch itself.

## 7. Plan

What is left, in order of importance.

1. That `MediaArchive` implements an archive in which storing a media is one step, and that
   `ArchiveJob` uses no more of it.
2. The deletion of jobs and the pages of the list in `Dashboard`; the caches of the library
   on the page.
3. Sessions beyond the revocation: the first setup against a login, the throttling of
   failed logins.
4. Safety lemmas behind the liveness properties: that whoever waits in `KeyLock`,
   `ClientPool` or the scheduler always has a step that can be taken for it.

## 8. Not modelled

Parsing and decoding of remote data, request signing, the composition of file names, HTTP plumbing, TLS,
compression, static files, migrations and the presentation of the page are sequential
data handling with no protocol. Login, the first setup and the validation of the
configuration are single transactions. The poster that is fetched along with a video, the
removal of old temporary files and the log of failed media change nothing the properties
are about. The process lock is one system call, assumed by every
module. Wall-clock time is abstracted to events that may happen at any moment; SQLite
is assumed serialisable with immediate transactions and durable after commit.
