----------------------------- MODULE ArchiveJob -----------------------------
(***************************************************************************)
(* What one job does (Manager.process and what it calls in internal/jobs): *)
(* it resolves users, pages through the media timeline of each, archives   *)
(* the media found, moves the user's cursor, or works on the queue of      *)
(* failed tweets, and ends with a status.  One job runs at a time          *)
(* (availableSlots; see JobQueue).                                         *)
(*                                                                         *)
(* An action is one answer of X, one call of downloadMedia (MediaArchive)  *)
(* or one SQL statement; users post, delete and pin tweets in between, the *)
(* job may be interrupted or a statement fail at any point, and rows of the*)
(* queue may be removed by the user.  Tweets are numbered in the order of  *)
(* their ids, over all users.  Names, directories and messages are left out*)
(* (see UserDirectory); users are taken in any order.                      *)
(***************************************************************************)
EXTENDS Integers, Sequences, FiniteSets, FiniteSetsExt

CONSTANTS
  User,
  Last,           \* the last tweet that is ever posted
  Author,         \* Author[t]: the user who posts tweet t
  Gallery,        \* Gallery[t]: what becomes of each of its media
  Unreadable,     \* tweets that cannot be parsed, or are unavailable
  PageSize,       \* tweets on a page of a timeline
  MaxEmptyPages,  \* maxConsecutiveEmptyPages
  BatchLimit,     \* retryBatchLimit
  MaxMishaps,     \* bound: interruptions, failed statements, scans cut short,
                  \* tweets deleted or pinned, rows of the queue removed
  None

Tweet == 1..Last
(* A media is archived or fails for a while; is lost at X (404, 410, DMCA);*)
(* has a type that is never accepted; or has no URL to download.           *)
Fate == {"plain", "lost", "untyped", "bare"}

ASSUME DataAssumption ==
  /\ Last \in Nat /\ None \notin User
  /\ Author \in [Tweet -> User] /\ Gallery \in [Tweet -> Seq(Fate)]
  /\ Unreadable \subseteq Tweet
ASSUME LimitAssumption ==
  /\ PageSize \in Nat \ {0} /\ MaxEmptyPages \in Nat \ {0}
  /\ BatchLimit \in Nat \ {0} /\ MaxMishaps \in Nat

Media == UNION {{<<t, i>> : i \in 1..Len(Gallery[t])} : t \in Tweet}
FateOf(m) == Gallery[m[1]][m[2]]

VARIABLES
  posted, deleted, pinned,  \* at X: the newest tweet, those deleted, pinned[u] or 0
  cursor,     \* cursor[u]: LastSeenTweetID of the user's entity, 0 without one
  queue,      \* the tweets in failed_tweets
  ahead,      \* ahead[t]: the rows of the queue that were updated before t's
  resting,    \* those whose next_retry_at is to come
  mine,       \* those whose job_id is the job's
  got,        \* archived media
  lost,       \* media that were marked as unavailable
  noted,      \* media recorded as failed that are not retried
  at,         \* where the job is, "idle" without one
  kind, verdict,  \* of the job, or of the last one
  trouble,    \* it has counted a failure
  todo, user, \* users still to archive, and the one at hand
  stop,       \* StopAtTweetID, 0 to scan everything
  row,        \* the user's cursor as the job has read it last
  first,      \* no page of the timeline was fetched yet
  empties, below, shown,  \* empty pages in a row; next page's place; ids seen
  found,      \* tweets of the user still to archive
  turn, next, \* the tweet at hand, and its next media
  batch,      \* rows of the queue still to retry
  claimed, missed, forgone,  \* history, see below
  mishaps

xVars == <<posted, deleted, pinned>>
queueVars == <<queue, ahead, resting, mine>>
mediaVars == <<got, lost, noted>>
fetchVars == <<user, stop, row, first, empties, below, shown>>
workVars == <<found, turn, next, batch>>
jobVars == <<kind, verdict, trouble, todo>>
histVars == <<claimed, missed, forgone, mishaps>>
vars == <<posted, deleted, pinned, cursor, queue, ahead, resting, mine, got, lost, noted,
          at, kind, verdict, trouble, todo, user, stop, row, first, empties, below, shown,
          found, turn, next, batch, claimed, missed, forgone, mishaps>>

(* claimed: the media the job has tried, in all its attempts; missed:      *)
(* tweets older than a page after which a scan was given up; forgone:      *)
(* tweets whose row in the queue was deleted by the user or pruned.        *)
Init ==
  /\ posted \in 0..Last /\ deleted = {} /\ pinned = [u \in User |-> 0]
  /\ cursor = [u \in User |-> 0]
  /\ queue = {} /\ ahead = [t \in Tweet |-> {}] /\ resting = {} /\ mine = {}
  /\ got = {} /\ lost = {} /\ noted = {}
  /\ at = "idle" /\ kind = "archive" /\ verdict = "none" /\ trouble = FALSE
  /\ todo = {} /\ user = None /\ stop = 0 /\ row = 0 /\ first = TRUE
  /\ empties = 0 /\ below = 0 /\ shown = {}
  /\ found = {} /\ turn = 0 /\ next = 1 /\ batch = {}
  /\ claimed = {} /\ missed = {} /\ forgone = {} /\ mishaps = 0
-----------------------------------------------------------------------------
Mishap == mishaps < MaxMishaps /\ mishaps' = mishaps + 1

(* The queue of failed tweets, ordered by updated_at.                      *)
(* CreateFailedTweet: inserted or updated, last in either case; its pause  *)
(* is kept.                                                                *)
PutLast(t) ==
  /\ queue' = queue \cup {t}
  /\ ahead' = [s \in Tweet |-> IF s = t THEN queue \ {t} ELSE ahead[s] \ {t}]

CreateFailedTweet(t) ==
  /\ PutLast(t)
  /\ mine' = mine \cup {t}
  /\ UNCHANGED resting

(* DeleteFailedTweet.                                                      *)
DeleteFailedTweet(t) ==
  /\ queue' = queue \ {t}
  /\ ahead' = [s \in Tweet |-> IF s = t THEN {} ELSE ahead[s] \ {t}]
  /\ resting' = resting \ {t} /\ mine' = mine \ {t}

(* TouchFailedTweet: the row, if it is still there, is updated and so last,*)
(* and pauses.  Mutant: updated_at is left as it is.                       *)
MutTouchFailedTweet(t) ==
  /\ resting' = IF t \in queue THEN resting \cup {t} ELSE resting
  /\ UNCHANGED <<queue, ahead, mine>>

TouchFailedTweet(t) ==
  \/ /\ t \in queue
     /\ PutLast(t)
     /\ resting' = resting \cup {t}
     /\ UNCHANGED mine
  \/ t \notin queue /\ UNCHANGED queueVars

(* ListFailedTweetsForRetry.                                               *)
FirstRows(rows) == {t \in rows : Cardinality(ahead[t] \cap rows) < BatchLimit}

(* The user deletes a row, or all of them one by one; PruneFailedRecords.  *)
Forget(t) ==
  /\ t \in queue /\ Mishap
  /\ DeleteFailedTweet(t)
  /\ forgone' = forgone \cup {t}
  /\ UNCHANGED <<xVars, cursor, mediaVars, at, fetchVars, workVars, jobVars, claimed, missed>>

PauseEnds(t) ==
  /\ t \in resting
  /\ resting' = resting \ {t}
  /\ UNCHANGED <<xVars, cursor, queue, ahead, mine, mediaVars, at, fetchVars, workVars,
                 jobVars, histVars>>
-----------------------------------------------------------------------------
(* At X.                                                                   *)
Visible(u) == {t \in 1..posted : Author[t] = u} \ deleted

Remote ==
  UNCHANGED <<cursor, queueVars, mediaVars, at, fetchVars, workVars, jobVars,
              claimed, missed, forgone>>

Post ==
  /\ posted < Last /\ posted' = posted + 1
  /\ UNCHANGED <<deleted, pinned, mishaps>> /\ Remote

DeleteTweet(t) ==
  /\ t \in Visible(Author[t]) /\ Mishap
  /\ deleted' = deleted \cup {t}
  /\ UNCHANGED <<posted, pinned>> /\ Remote

Pin(u) ==
  /\ Mishap
  /\ \E t \in Visible(u) : pinned' = [pinned EXCEPT ![u] = t]
  /\ UNCHANGED <<posted, deleted>> /\ Remote
-----------------------------------------------------------------------------
(* A job is claimed: a new one, or one that was interrupted and is queued  *)
(* again.                                                                  *)
Start(k) ==
  /\ at = "idle"
  /\ at' = "resolve" /\ kind' = k /\ verdict' = "running" /\ trouble' = FALSE
  /\ mine' = {} /\ claimed' = {}
  /\ UNCHANGED <<xVars, cursor, queue, ahead, resting, mediaVars, fetchVars, workVars,
                 todo, missed, forgone, mishaps>>

StartAgain ==
  /\ at = "idle" /\ verdict = "interrupted"
  /\ at' = "resolve" /\ verdict' = "running" /\ trouble' = FALSE
  /\ UNCHANGED <<xVars, cursor, queueVars, mediaVars, fetchVars, workVars, kind, todo,
                 histVars>>

(* Whatever a job keeps in memory is gone when it ends.                    *)
EndJob(v) ==
  /\ at' = "idle" /\ verdict' = v
  /\ todo' = {} /\ user' = None /\ stop' = 0 /\ row' = 0 /\ first' = TRUE
  /\ empties' = 0 /\ below' = 0 /\ shown' = {}
  /\ found' = {} /\ turn' = 0 /\ next' = 1 /\ batch' = {}

(* The job is cancelled by the user or a statement fails; or it is stopped *)
(* at shutdown or the process dies, and the job will be queued again.      *)
Upset ==
  /\ at # "idle"
  /\ Mishap
  /\ \E v \in {"interrupted", "failed"} : EndJob(v)
  /\ UNCHANGED <<xVars, cursor, queueVars, mediaVars, kind, trouble,
                 claimed, missed, forgone>>

(* X cannot be asked: no client is usable, its queries are out of date, the*)
(* user or list is not there.  During a page the latter ends the user only.*)
Fail ==
  /\ at \in {"resolve", "users", "page"} /\ kind \in {"archive", "link"}
  /\ EndJob("failed")
  /\ UNCHANGED <<xVars, cursor, queueVars, mediaVars, kind, trouble, histVars>>
-----------------------------------------------------------------------------
(* archiveUsers: users whose relation to the primary account cannot be read*)
(* count as failed; those who block or mute and those listed twice are     *)
(* skipped (archiveUserTasks).                                             *)
Enlist(users) ==
  /\ at' = "users"
  /\ \E kept \in SUBSET users :
       /\ todo' = kept
       /\ trouble' \in IF kept = users THEN {FALSE} ELSE BOOLEAN
  /\ UNCHANGED <<xVars, cursor, queueVars, mediaVars, fetchVars, workVars, kind, verdict,
                 histVars>>

ResolveUser ==
  /\ at = "resolve" /\ kind = "archive"
  /\ \E u \in User : Enlist({u})

(* The members of a list.                                                  *)
ResolveList ==
  /\ at = "resolve" /\ kind = "archive"
  /\ \E users \in SUBSET User : Enlist(users)

(* The accounts an account follows.                                        *)
ResolveFollowing ==
  /\ at = "resolve" /\ kind = "archive"
  /\ \E owner \in User : \E users \in SUBSET (User \ {owner}) : Enlist(users)

(* archiveUser, up to the timeline; a link that cannot be created counts as*)
(* a failure.  The timeline is read from the cursor in incremental mode.   *)
TakeUser(u) ==
  /\ at = "users" /\ u \in todo
  /\ at' = "page" /\ user' = u
  /\ row' = cursor[u] /\ stop' \in {0, row'}
  /\ trouble' \in {trouble, TRUE}
  /\ first' = TRUE /\ empties' = 0 /\ below' = Last + 1 /\ shown' = {}
  /\ found' = {}
  /\ UNCHANGED <<xVars, cursor, queueVars, mediaVars, kind, verdict, todo, turn, next, batch,
                 histVars>>

NextUser ==
  /\ at' = "users" /\ todo' = todo \ {user} /\ user' = None
  /\ stop' = 0 /\ row' = 0 /\ first' = TRUE /\ empties' = 0 /\ below' = 0 /\ shown' = {}
  /\ found' = {} /\ turn' = 0 /\ next' = 1
  /\ UNCHANGED batch

(* The user is protected and not followed; or the directory cannot be made *)
(* or a page not be read, which are failures.                              *)
PassOver ==
  /\ at = "page"
  /\ NextUser
  /\ trouble' \in IF first THEN {trouble, TRUE} ELSE {TRUE}
  /\ UNCHANGED <<xVars, cursor, queueVars, mediaVars, kind, verdict, histVars>>
-----------------------------------------------------------------------------
(* getUserTimelineWithStats: pages of the timeline, newest tweets first.   *)
Older == {t \in Visible(user) : t < below}
Page == {t \in Older : Cardinality({s \in Older : s > t}) < PageSize}

(* The pinned tweet comes first on the first page, and again in its place. *)
Pinned == IF first THEN {pinned[user]} \cap Visible(user) ELSE {}
Items == Page \cup Pinned

(* shouldStopAt and the check of the tail of the first page: there, only   *)
(* the cursor's own tweet stops the scan, and it does not if it may be the *)
(* pinned one.  Mutant: the tail is not looked at.                         *)
MutStopsUntailed ==
  /\ stop # 0
  /\ IF first THEN stop \in Items
     ELSE \E t \in Items \ shown : t <= stop

Stops ==
  /\ stop # 0
  /\ IF first THEN stop \in Items /\ Min(IF Page = {} THEN Items ELSE Page) <= stop
     ELSE \E t \in Items \ shown : t <= stop

(* Once the cursor's tweet was met, only newer ones are kept; the pinned   *)
(* one comes before.                                                       *)
Kept ==
  IF first
  THEN IF stop \in Items THEN {t \in Items : t > stop} \cup (Pinned \ {stop}) ELSE Items
  ELSE {t \in Items \ shown : t > stop}

Archivable(t) == t \notin Unreadable /\ Gallery[t] # <<>>

FetchPage ==
  /\ at = "page" /\ Items # {}
  /\ shown' = shown \cup Items
  /\ found' = found \cup {t \in Kept : Archivable(t)}
  /\ below' = IF Page = {} THEN below ELSE Min(Page)
  /\ first' = FALSE /\ empties' = 0
  /\ at' = IF Stops THEN "fetched" ELSE "page"
  /\ UNCHANGED <<xVars, cursor, queueVars, mediaVars, user, stop, row, turn, next, batch,
                 jobVars, histVars>>

(* An empty page that is not the last: the third in a row ends the scan.   *)
(* Mutant: one page too late.                                              *)
MutFetchEmptyPage ==
  /\ at = "page"
  /\ first' = FALSE /\ empties' = empties + 1
  /\ \/ empties' <= MaxEmptyPages /\ UNCHANGED <<at, missed, mishaps>>
     \/ /\ empties' = MaxEmptyPages + 1 /\ Mishap
        /\ at' = "fetched" /\ missed' = missed \cup {t \in Older : t > stop}
  /\ UNCHANGED <<xVars, cursor, queueVars, mediaVars, user, stop, row, below, shown, workVars,
                 jobVars, claimed, forgone>>

FetchEmptyPage ==
  /\ at = "page"
  /\ first' = FALSE /\ empties' = empties + 1
  /\ \/ empties' < MaxEmptyPages /\ UNCHANGED <<at, missed, mishaps>>
     \/ /\ empties' = MaxEmptyPages /\ Mishap
        /\ at' = "fetched" /\ missed' = missed \cup {t \in Older : t > stop}
  /\ UNCHANGED <<xVars, cursor, queueVars, mediaVars, user, stop, row, below, shown, workVars,
                 jobVars, claimed, forgone>>

TimelineEnds ==
  /\ at = "page" /\ Items = {}
  /\ at' = "fetched"
  /\ UNCHANGED <<xVars, cursor, queueVars, mediaVars, fetchVars, workVars, jobVars, histVars>>

(* The server's cursor comes again, or the thousandth page was read.       *)
CutShort ==
  /\ at = "page" /\ ~first /\ Mishap
  /\ at' = "fetched"
  /\ missed' = missed \cup {t \in Older : t > stop}
  /\ UNCHANGED <<xVars, cursor, queueVars, mediaVars, fetchVars, workVars, jobVars,
                 claimed, forgone>>
-----------------------------------------------------------------------------
(* archiveTweetsWithSeen: media after media.                               *)
Claim ==
  /\ at = "fetched" /\ found # {}
  /\ at' = "save" /\ turn' = Max(found) /\ next' = 1
  /\ UNCHANGED <<xVars, cursor, queueVars, mediaVars, fetchVars, found, batch, jobVars,
                 histVars>>

Hand == <<turn, next>>

(* downloadMedia of the media at hand: archived, by this call or before, or*)
(* lost and marked as such.                                                *)
Downloads ==
  \/ FateOf(Hand) = "plain" /\ got' = got \cup {Hand} /\ UNCHANGED <<lost, noted>>
  \/ FateOf(Hand) = "lost" /\ lost' = lost \cup {Hand} /\ UNCHANGED <<got, noted>>

Records ==
  FateOf(Hand) = "untyped" /\ noted' = noted \cup {Hand} /\ UNCHANGED <<got, lost>>

(* On to the next media, the next tweet, or the cursor.                    *)
NextMedia ==
  /\ claimed' = claimed \cup {Hand}
  /\ UNCHANGED <<batch, missed, forgone>>
  /\ \/ next < Len(Gallery[turn]) /\ next' = next + 1 /\ UNCHANGED <<at, turn, found>>
     \/ /\ next = Len(Gallery[turn])
        /\ found' = found \ {turn} /\ next' = 1
        /\ IF found' = {} THEN at' = "advance" /\ turn' = 0
           ELSE UNCHANGED at /\ turn' = Max(found')

SaveMedia ==
  /\ at = "save"
  /\ Downloads /\ NextMedia
  /\ UNCHANGED <<xVars, cursor, queueVars, fetchVars, jobVars, mishaps>>

(* No URL: an issue and a failure, nothing else.  A type that is not       *)
(* accepted: recorded, and not retried.                                    *)
SkipMedia ==
  /\ at = "save"
  /\ Records \/ (FateOf(Hand) = "bare" /\ UNCHANGED mediaVars)
  /\ NextMedia
  /\ trouble' = TRUE
  /\ UNCHANGED <<xVars, cursor, queueVars, fetchVars, kind, verdict, todo, mishaps>>

(* Any other error: the tweet is queued (rememberFailedTweet).             *)
RememberMedia ==
  /\ at = "save" /\ FateOf(Hand) = "plain"
  /\ NextMedia
  /\ CreateFailedTweet(turn)
  /\ trouble' = TRUE
  /\ UNCHANGED <<xVars, cursor, mediaVars, fetchVars, kind, verdict, todo, mishaps>>

(* The cursor is moved by two statements.  The row is read again           *)
(* (GetUserEntity) and compared with the newest id seen; then              *)
(* UpdateUserEntityLastSeenTweet sets the newer of both, whatever the row  *)
(* has by then.  Without a tweet to archive the row is not read again.     *)
(* Mutant: the row is not compared.                                        *)
ReadCursor ==
  /\ at = "advance"
  /\ at' = "write" /\ row' = cursor[user]
  /\ UNCHANGED <<xVars, cursor, queueVars, mediaVars, user, stop, first, empties, below, shown,
                 workVars, jobVars, histVars>>

MutSeen == IF shown = {} THEN row ELSE Max(shown)

Seen == Max(shown \cup {row})

AdvanceCursor ==
  /\ at = "write" \/ (at = "fetched" /\ found = {})
  /\ cursor' = [cursor EXCEPT ![user] = Seen]
  /\ NextUser
  /\ UNCHANGED <<xVars, queueVars, mediaVars, kind, verdict, trouble, histVars>>

(* completeArchive.  Mutant: the rows of the job are not counted.          *)
MutClean == ~trouble

Clean == ~trouble /\ mine \cap queue = {}

CompleteArchive ==
  /\ at = "users" /\ todo = {}
  /\ EndJob(IF Clean THEN "completed" ELSE "completed_with_errors")
  /\ UNCHANGED <<xVars, cursor, queueVars, mediaVars, kind, trouble, histVars>>
-----------------------------------------------------------------------------
(* retryFailedTweets, forced by the user or automatic.                     *)
ListFailedTweets ==
  /\ at = "resolve" /\ kind \in {"retry", "auto"}
  /\ at' = "retry"
  /\ batch' = FirstRows(IF kind = "retry" THEN queue ELSE queue \ resting)
  /\ UNCHANGED <<xVars, cursor, queueVars, mediaVars, fetchVars, found, turn, next, jobVars,
                 histVars>>

RetryTweet(t) ==
  /\ at = "retry" /\ t \in batch /\ ahead[t] \cap batch = {}
  /\ at' = "try" /\ turn' = t /\ next' = 1
  /\ UNCHANGED <<xVars, cursor, queueVars, mediaVars, fetchVars, found, batch, jobVars,
                 histVars>>

(* A media without URL is skipped.                                         *)
RetryMedia ==
  /\ at = "try" /\ next <= Len(Gallery[turn])
  /\ Downloads \/ (FateOf(Hand) = "bare" /\ UNCHANGED mediaVars)
  /\ next' = next + 1
  /\ UNCHANGED <<xVars, cursor, queueVars, at, fetchVars, found, turn, batch, jobVars,
                 histVars>>

NextTweet ==
  /\ at' = "retry" /\ batch' = batch \ {turn} /\ turn' = 0 /\ next' = 1
  /\ UNCHANGED <<xVars, cursor, mediaVars, fetchVars, found, jobVars, histVars>>

(* Every media is archived or lost, or none has a URL.                     *)
RetrySucceeds ==
  /\ at = "try" /\ next > Len(Gallery[turn])
  /\ DeleteFailedTweet(turn)
  /\ NextTweet

(* The first media that fails ends the tweet.                              *)
RetryFails ==
  /\ at = "try" /\ next <= Len(Gallery[turn])
  /\ FateOf(Hand) \in {"plain", "untyped"}
  /\ TouchFailedTweet(turn)
  /\ NextTweet

CompleteRetry ==
  /\ at = "retry" /\ batch = {}
  /\ EndJob(IF kind = "retry" /\ queue # {} THEN "completed_with_errors" ELSE "completed")
  /\ UNCHANGED <<xVars, cursor, queueVars, mediaVars, kind, trouble, histVars>>
-----------------------------------------------------------------------------
(* processTweetLink: one tweet; the first failure ends the job.            *)
ParseTweetLink ==
  /\ at = "resolve" /\ kind = "link"
  /\ \E t \in 1..posted \ (deleted \cup Unreadable) :
       /\ \E i \in 1..Len(Gallery[t]) : Gallery[t][i] # "bare"
       /\ turn' = t
  /\ at' = "link" /\ next' = 1
  /\ UNCHANGED <<xVars, cursor, queueVars, mediaVars, fetchVars, found, batch, jobVars,
                 histVars>>

LinkMedia ==
  /\ at = "link" /\ next <= Len(Gallery[turn])
  /\ \/ Downloads /\ UNCHANGED trouble
     \/ FateOf(Hand) = "bare" /\ trouble' = TRUE /\ UNCHANGED mediaVars
  /\ next' = next + 1 /\ claimed' = claimed \cup {Hand}
  /\ UNCHANGED <<xVars, cursor, queueVars, at, fetchVars, found, turn, batch, kind, verdict,
                 todo, missed, forgone, mishaps>>

LinkFails ==
  /\ at = "link" /\ next <= Len(Gallery[turn])
  /\ Records \/ (FateOf(Hand) = "plain" /\ UNCHANGED mediaVars)
  /\ EndJob("failed")
  /\ UNCHANGED <<xVars, cursor, queueVars, kind, trouble, histVars>>

CompleteLink ==
  /\ at = "link" /\ next > Len(Gallery[turn])
  /\ EndJob(IF trouble THEN "completed_with_errors" ELSE "completed")
  /\ UNCHANGED <<xVars, cursor, queueVars, mediaVars, kind, trouble, histVars>>

(* processMediaURL: a single URL, known by its tweet or not.               *)
ProcessMediaURL ==
  /\ at = "resolve" /\ kind = "link"
  /\ \E m \in {n \in Media : n[1] <= posted} :
       /\ \/ FateOf(m) = "plain" /\ got' = got \cup {m} /\ EndJob("completed")
             /\ UNCHANGED <<lost, noted>>
          \/ FateOf(m) = "lost" /\ lost' = lost \cup {m} /\ EndJob("completed")
             /\ UNCHANGED <<got, noted>>
          \/ FateOf(m) \in {"plain", "untyped"} /\ EndJob("failed") /\ UNCHANGED mediaVars
  /\ UNCHANGED <<xVars, cursor, queueVars, kind, trouble, histVars>>
-----------------------------------------------------------------------------
(* The steps of a job whose answers come.                                  *)
Work ==
  \/ ResolveUser \/ ResolveList \/ ResolveFollowing \/ \E u \in User : TakeUser(u)
  \/ FetchPage \/ TimelineEnds \/ Claim \/ SaveMedia \/ SkipMedia \/ RememberMedia
  \/ ReadCursor \/ AdvanceCursor \/ CompleteArchive
  \/ ListFailedTweets \/ (\E t \in Tweet : RetryTweet(t)) \/ RetryMedia
  \/ RetrySucceeds \/ RetryFails \/ CompleteRetry
  \/ ParseTweetLink \/ LinkMedia \/ LinkFails \/ CompleteLink \/ ProcessMediaURL \/ Fail

(* runOnce queues the automatic retry now and again, if it is switched on. *)
StartRetry == Start("auto")

Next ==
  \/ Work \/ PassOver \/ FetchEmptyPage \/ CutShort
  \/ \E k \in {"archive", "link", "retry"} : Start(k)
  \/ StartRetry \/ StartAgain \/ Upset
  \/ Post \/ (\E t \in Tweet : DeleteTweet(t) \/ Forget(t) \/ PauseEnds(t))
  \/ \E u \in User : Pin(u)

(* A job goes on; pauses end; the automatic retry gets its turn among the  *)
(* jobs of the user (JobQueue).                                            *)
Fairness ==
  /\ WF_vars(Work) /\ SF_vars(StartRetry)
  /\ \A t \in Tweet : WF_vars(PauseEnds(t))

Spec == Init /\ [][Next]_vars
FairSpec == Spec /\ Fairness
-----------------------------------------------------------------------------
(* The values the variables take.                                          *)
TypeOK ==
  /\ posted \in 0..Last /\ deleted \subseteq Tweet /\ pinned \in [User -> 0..Last]
  /\ cursor \in [User -> 0..Last]
  /\ queue \subseteq Tweet /\ ahead \in [Tweet -> SUBSET Tweet]
  /\ resting \subseteq queue /\ mine \subseteq Tweet
  /\ got \subseteq Media /\ lost \subseteq Media /\ noted \subseteq Media
  /\ at \in {"idle", "resolve", "users", "page", "fetched", "save", "advance",
            "write", "retry", "try", "link"}
  /\ kind \in {"archive", "link", "retry", "auto"}
  /\ verdict \in {"none", "running", "completed", "completed_with_errors", "failed",
                 "interrupted"}
  /\ trouble \in BOOLEAN /\ todo \subseteq User /\ user \in User \cup {None}
  /\ stop \in 0..Last /\ row \in 0..Last /\ first \in BOOLEAN
  /\ empties \in 0..MaxEmptyPages /\ below \in 0..Last + 1 /\ shown \subseteq Tweet
  /\ found \subseteq Tweet /\ turn \in 0..Last /\ next \in Nat /\ batch \subseteq Tweet
  /\ claimed \subseteq Media /\ missed \subseteq Tweet /\ forgone \subseteq Tweet
  /\ mishaps \in 0..MaxMishaps

(* A media that needs no further attempt, or gets one from the queue.      *)
Settled(m) ==
  \/ m \in got \cup lost \cup noted \/ FateOf(m) = "bare"
  \/ m[1] \in queue \cup forgone

(* The cursor never passes a tweet whose media would then be forgotten:    *)
(* every media of a tweet that is not newer than the cursor is archived,   *)
(* lost, recorded, or waits in the queue, through pinned, deleted and new  *)
(* tweets, empty pages, interruptions and failed statements.  Excepted is  *)
(* what the code passes knowingly, tweets that cannot be read and media    *)
(* without a URL, and tweets a scan was cut short before and rows the user *)
(* removed.                                                                *)
NoGap ==
  \A m \in Media :
    LET t == m[1] IN
    t <= cursor[Author[t]] /\ t \notin deleted \cup missed \cup Unreadable => Settled(m)

(* A scan never moves the cursor back, although the newest tweet may be    *)
(* deleted, a full scan starts without it, and the statement that writes   *)
(* it has no condition: nothing comes between that and the look at the row.*)
CursorNeverBack == [][\A u \in User : cursor'[u] >= cursor[u]]_cursor

(* "completed" is said only if all the job tried, in this attempt or in one*)
(* that was interrupted, is archived or lost, unless the user gave it up.  *)
(* Media that are never accepted count only in the attempt that ends.      *)
CleanVerdict ==
  verdict = "completed" =>
    \A m \in claimed :
      FateOf(m) \in {"plain", "lost"} => m \in got \cup lost \/ m[1] \in forgone

(* Every row of the queue is tried again or removed: rows that fail again  *)
(* and again do not keep the others from their turn.                       *)
Tried(t) == at \in {"save", "try"} /\ turn = t
EveryRowTried == \A t \in Tweet : t \in queue ~> t \notin queue \/ Tried(t)
=============================================================================
