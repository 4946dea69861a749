-------------------------- MODULE ArchiveJobProofs --------------------------
(***************************************************************************)
(* The cursor of a user never passes a media that would then be forgotten, *)
(* it never moves back, and a job is called completed only if all it tried *)
(* is there: for any users, tweets, galleries, page sizes and limits, and  *)
(* any number of mishaps.                                                  *)
(***************************************************************************)
EXTENDS ArchiveJob, FiniteSetTheorems, SequenceTheorems, TLAPS

Scanning == at \in {"page", "fetched", "save", "advance", "write"}
InGallery(t) == 1..Len(Gallery[t])

(* What the job's place says of its kind and of what it has in its hands.  *)
Placed ==
  /\ at # "idle" => verdict = "running"
  /\ at = "users" \/ Scanning => kind = "archive"
  /\ at \in {"retry", "try"} => kind \in {"retry", "auto"}
  /\ at = "link" => kind = "link"
  /\ Scanning => user \in User /\ stop \in {0, cursor[user]} /\ row = cursor[user]
  /\ \A t \in found : Archivable(t)
  /\ at \in {"advance", "write"} => found = {}
  /\ at = "save" => turn \in found /\ next \in InGallery(turn)
  /\ at \in {"try", "link"} => turn \in Tweet /\ next \in 1..Len(Gallery[turn]) + 1

(* The media of the tweet at hand that the job is done with.               *)
InPlace(m) == m \in got \cup lost \/ FateOf(m) = "bare"
Handled ==
  /\ at = "save" => \A i \in 1..next - 1 : Settled(<<turn, i>>)
  /\ at = "try" => \A i \in 1..next - 1 : InPlace(<<turn, i>>)

(* The tweets of the user at hand that are as old as one that was shown.   *)
Reached == {t \in Tweet \ deleted : Author[t] = user /\ \E s \in shown : t <= s}

(* A scan has seen all tweets of the user between the newest and the page's*)
(* place; it keeps those above the cursor until they are settled; and when *)
(* it has ended, the others above the cursor are those it is known to miss.*)
ShownOK == shown \subseteq {t \in 1..posted : Author[t] = user}
NoHole == \A t \in Reached : t >= below => t \in shown
Above == \A t \in shown : t > stop /\ Archivable(t) =>
           t \in found \/ \A i \in InGallery(t) : Settled(<<t, i>>)
Below == at # "page" => \A t \in Reached : t > stop /\ t < below => t \in shown \cup missed
FirstOK == at = "page" /\ first => below = Last + 1
ScanOK == Scanning => ShownOK /\ NoHole /\ Above /\ Below /\ FirstOK

(* What the job has tried is there, given up by the user, or in a row of   *)
(* the queue that is the job's; only an archive has such rows, and a retry *)
(* claims nothing.                                                         *)
ClaimsOK ==
  /\ \A m \in claimed : FateOf(m) \in {"plain", "lost"} =>
       m \in got \cup lost \/ m[1] \in forgone \cup (mine \cap queue)
  /\ kind \in {"retry", "auto"} => claimed = {}
  /\ kind # "archive" => mine = {}

IInv == TypeOK /\ Placed /\ Handled /\ NoGap /\ ScanOK /\ ClaimsOK /\ CleanVerdict
-----------------------------------------------------------------------------
(* Facts of the model's operators.                                         *)
LEMMA LeastNumber ==
  ASSUME NEW S \in SUBSET Nat, S # {}
  PROVE  \E x \in S : \A y \in S : x <= y
<1> DEFINE T == {0..x : x \in S}
           R == StrictSubsetOrdering(Nat)
           F == FiniteSubsetsOf(Nat)
<1>1. T \subseteq F
  <2> SUFFICES ASSUME NEW x \in S PROVE 0..x \in F
    OBVIOUS
  <2>1. IsFiniteSet(0..x) BY FS_Interval
  <2>2. 0..x \in SUBSET Nat OBVIOUS
  <2> QED BY <2>1, <2>2 DEF FiniteSubsetsOf
<1>2. T # {} OBVIOUS
<1>3. \E t \in T : \A u \in T : <<u, t>> \notin R
  <2>1. IsWellFoundedOn(R, F) BY FS_StrictSubsetOrderingWellFounded
  <2> HIDE DEF R, F, T
  <2> QED BY <1>1, <1>2, <2>1, WFMin
<1>4. PICK x \in S : \A y \in S : <<0..y, 0..x>> \notin R
  BY <1>3
<1>5. ASSUME NEW y \in S, y < x PROVE <<0..y, 0..x>> \in R
  <2>1. 0..y \subseteq 0..x /\ 0..y # 0..x
    <3>1. x \in 0..x /\ x \notin 0..y BY <1>5
    <3>2. 0..y \subseteq 0..x BY <1>5
    <3> QED BY <3>1, <3>2
  <2> QED BY <2>1 DEF StrictSubsetOrdering
<1>6. \A y \in S : x <= y
  <2> SUFFICES ASSUME NEW y \in S PROVE ~(y < x)
    OBVIOUS
  <2> QED BY <1>4, <1>5
<1> QED BY <1>6

LEMMA MinIsLeast ==
  ASSUME NEW S \in SUBSET Nat, S # {}
  PROVE  Min(S) \in S /\ \A y \in S : Min(S) <= y
<1>1. \E x \in S : \A y \in S : x <= y
  BY LeastNumber
<1> QED BY <1>1 DEF Min

LEMMA MaxIsGreatest ==
  ASSUME NEW n \in Nat, NEW S \in SUBSET (0..n), S # {}
  PROVE  Max(S) \in S /\ \A y \in S : y <= Max(S)
<1> DEFINE B == {k \in Nat : \A y \in S : y <= k}
<1>1. n \in B OBVIOUS
<1>2. PICK m \in B : \A k \in B : m <= k
  BY <1>1, LeastNumber
<1>3. m \in S
  <2> SUFFICES ASSUME m \notin S PROVE FALSE OBVIOUS
  <2>1. \A y \in S : y <= m - 1 OBVIOUS
  <2>2. PICK y \in S : TRUE OBVIOUS
  <2>3. m - 1 \in Nat BY <2>2
  <2>4. m - 1 \in B BY <2>1, <2>3
  <2> QED BY <2>4, <1>2
<1> QED BY <1>2, <1>3 DEF Max

LEMMA TweetsAreNumbers == Last \in Nat /\ Tweet \in SUBSET (0..Last) /\ Tweet \in SUBSET Nat
BY DataAssumption DEF Tweet

LEMMA GalleryLength == \A t \in Tweet : Len(Gallery[t]) \in Nat
BY DataAssumption, LenProperties

LEMMA MediaOfTweet == \A t \in Tweet : \A i \in InGallery(t) : <<t, i>> \in Media
BY DEF Media, InGallery

LEMMA MediaParts ==
  ASSUME NEW m \in Media
  PROVE  m[1] \in Tweet /\ m[2] \in InGallery(m[1]) /\ m = <<m[1], m[2]>>
BY DEF Media, InGallery

LEMMA VisibleTweets ==
  ASSUME TypeOK, NEW u
  PROVE  Visible(u) \subseteq {t \in Tweet : t <= posted /\ Author[t] = u}
BY TweetsAreNumbers DEF TypeOK, Visible, Tweet

(* A page is the top of what is older: it is empty only if that is, and    *)
(* what lies above a tweet of it is on it.                                 *)
LEMMA PageIsTop ==
  ASSUME TypeOK
  PROVE  /\ Page \subseteq Older /\ Older \subseteq Visible(user)
         /\ Older # {} => Page # {}
         /\ \A t \in Page : \A s \in Older : s > t => s \in Page
<1>1. Older \subseteq Visible(user) /\ Page \subseteq Older
  BY DEF Older, Page
<1>2. Older \in SUBSET Tweet /\ Older \in SUBSET (0..Last) /\ Older \in SUBSET Nat
  BY <1>1, VisibleTweets, TweetsAreNumbers
<1>3. \A r \in Older : r \in Nat
  BY <1>2
<1>4. IsFiniteSet(Older)
  <2>1. Last \in Int /\ 0 \in Int
    BY TweetsAreNumbers
  <2>2. IsFiniteSet(0..Last)
    BY <2>1, FS_Interval
  <2> QED BY <1>2, <2>2, FS_Subset
<1>5. ASSUME Older # {} PROVE Page # {}
  <2>1. PICK m \in Older : \A s \in Older : s <= m
    BY <1>2, <1>5, TweetsAreNumbers, MaxIsGreatest
  <2>2. {s \in Older : s > m} = {}
    BY <2>1, <1>3
  <2>3. Cardinality({s \in Older : s > m}) < PageSize
    BY <2>2, FS_EmptySet, LimitAssumption
  <2> QED BY <2>3 DEF Page
<1>6. ASSUME NEW t \in Page, NEW s \in Older, s > t PROVE s \in Page
  <2> DEFINE A == {r \in Older : r > s}
             B == {r \in Older : r > t}
  <2>1. t \in Older BY <1>1
  <2>2. A \in SUBSET B
    BY <1>3, <1>6, <2>1
  <2>3. IsFiniteSet(B) /\ IsFiniteSet(A)
    BY <1>4, FS_Subset
  <2>4. Cardinality(A) <= Cardinality(B) /\ Cardinality(A) \in Nat /\ Cardinality(B) \in Nat
    BY <2>2, <2>3, FS_Subset, FS_CardinalityType
  <2>5. Cardinality(B) < PageSize
    BY DEF Page
  <2>6. Cardinality(A) < PageSize
    BY <2>4, <2>5, LimitAssumption
  <2> QED BY <2>6 DEF Page
<1> QED BY <1>1, <1>5, <1>6

LEMMA PagePlace ==
  ASSUME TypeOK
  PROVE  Page \subseteq Tweet /\ Items \subseteq Tweet
         /\ (Page # {} => Min(Page) \in Page /\ \A t \in Page : Min(Page) <= t)
<1>1. Page \subseteq Tweet
  BY PageIsTop, VisibleTweets
<1>2. Items \subseteq Tweet
  BY <1>1, VisibleTweets DEF Items, Pinned
<1> QED BY <1>1, <1>2, TweetsAreNumbers, MinIsLeast

LEMMA TopOfFound ==
  ASSUME TypeOK, NEW S \in SUBSET Tweet, S # {}
  PROVE  Max(S) \in S /\ \A t \in S : t <= Max(S)
BY TweetsAreNumbers, MaxIsGreatest
-----------------------------------------------------------------------------
(* The types.                                                              *)
LEMMA QueueTypes ==
  ASSUME TypeOK, NEW t \in Tweet
  PROVE  /\ PutLast(t) => queue' \subseteq Tweet /\ ahead' \in [Tweet -> SUBSET Tweet]
         /\ DeleteFailedTweet(t) => /\ queue' \subseteq Tweet /\ resting' \subseteq queue'
                                    /\ mine' \subseteq Tweet /\ ahead' \in [Tweet -> SUBSET Tweet]
BY DEF TypeOK, PutLast, DeleteFailedTweet

LEMMA TypeOfIdle ==
  ASSUME TypeOK, NEW v \in {"completed", "completed_with_errors", "failed", "interrupted"},
         EndJob(v), UNCHANGED <<xVars, cursor, queueVars, kind, trouble, claimed, missed, forgone>>,
         got' \subseteq Media, lost' \subseteq Media, noted' \subseteq Media,
         mishaps' \in 0..MaxMishaps
  PROVE  TypeOK'
BY LimitAssumption, TweetsAreNumbers DEF TypeOK, EndJob, xVars, queueVars

LEMMA HandIsMedia ==
  ASSUME TypeOK, Placed, \/ at = "save" 
                         \/ at \in {"try", "link"} /\ next <= Len(Gallery[turn])
  PROVE  Hand \in Media /\ turn \in Tweet /\ next \in InGallery(turn) /\ next \in Nat
<1>1. turn \in Tweet /\ next \in InGallery(turn)
  BY GalleryLength DEF Placed, TypeOK, InGallery
<1> QED BY <1>1, MediaOfTweet, GalleryLength DEF Hand, InGallery

LEMMA MediaTypes ==
  ASSUME TypeOK, Hand \in Media, Downloads \/ Records \/ UNCHANGED mediaVars
  PROVE  got' \subseteq Media /\ lost' \subseteq Media /\ noted' \subseteq Media
BY DEF TypeOK, Downloads, Records, mediaVars

LEMMA TypesOutside ==
  ASSUME TypeOK,
         \/ Post \/ \E u \in User : Pin(u)
         \/ \E t \in Tweet : DeleteTweet(t) \/ Forget(t) \/ PauseEnds(t)
  PROVE  TypeOK'
<1> USE LimitAssumption, TweetsAreNumbers DEF Mishap
<1>1. CASE Post
  BY <1>1 DEF TypeOK, Post, Remote, queueVars, mediaVars, fetchVars, workVars, jobVars
<1>2. ASSUME NEW t \in Tweet, DeleteTweet(t) PROVE TypeOK'
  BY <1>2 DEF TypeOK, DeleteTweet, Remote, queueVars, mediaVars, fetchVars, workVars, jobVars
<1>3. ASSUME NEW u \in User, Pin(u) PROVE TypeOK'
  <2>1. PICK t1 \in Visible(u) : pinned' = [pinned EXCEPT ![u] = t1]
    BY <1>3 DEF Pin
  <2>2. t1 \in 0..Last
    BY VisibleTweets
  <2>3. pinned' \in [User -> 0..Last]
    BY <2>1, <2>2 DEF TypeOK
  <2> QED
    BY <1>3, <2>3 DEF TypeOK, Pin, Remote, queueVars, mediaVars, fetchVars, workVars, jobVars
<1>4. ASSUME NEW t \in Tweet, Forget(t) PROVE TypeOK'
  BY <1>4, QueueTypes DEF TypeOK, Forget, xVars, mediaVars, fetchVars, workVars, jobVars
<1>5. ASSUME NEW t \in Tweet, PauseEnds(t) PROVE TypeOK'
  BY <1>5 DEF TypeOK, PauseEnds, xVars, mediaVars, fetchVars, workVars, jobVars, histVars
<1> QED BY <1>1, <1>2, <1>3, <1>4, <1>5

LEMMA KeptAreShown == Kept \subseteq Items
BY DEF Kept, Items

LEMMA TypesOfScan ==
  ASSUME TypeOK, Placed,
         \/ (\E u \in User : TakeUser(u)) \/ PassOver \/ FetchPage \/ FetchEmptyPage \/ TimelineEnds \/ CutShort
         \/ ResolveUser \/ ResolveList \/ ResolveFollowing \/ ReadCursor \/ AdvanceCursor
  PROVE  TypeOK'
<1> USE LimitAssumption, TweetsAreNumbers DEF Mishap
<1>1. ASSUME NEW u \in User, TakeUser(u) PROVE TypeOK'
  <2>1. trouble' \in BOOLEAN /\ first' \in BOOLEAN
    BY <1>1 DEF TypeOK, TakeUser
  <2>2. stop' \in 0..Last /\ row' \in 0..Last /\ below' \in 0..Last + 1
    BY <1>1 DEF TypeOK, TakeUser
  <2> QED
    BY <1>1, <2>1, <2>2 DEF TypeOK, TakeUser, xVars, queueVars, mediaVars, histVars
<1>2. CASE PassOver
  <2>1. trouble' \in BOOLEAN /\ first' \in BOOLEAN
    BY <1>2 DEF TypeOK, PassOver, NextUser
  <2> QED
    BY <1>2, <2>1 DEF TypeOK, PassOver, NextUser, xVars, queueVars, mediaVars, histVars
<1>3. CASE FetchPage
  <2>1. found' \subseteq Tweet /\ shown' \subseteq Tweet
    BY <1>3, PagePlace, KeptAreShown DEF TypeOK, FetchPage
  <2>2. below' \in 0..Last + 1
    BY <1>3, PagePlace DEF TypeOK, FetchPage
  <2>3. at' \in {"fetched", "page"}
    BY <1>3 DEF FetchPage
  <2> HIDE <1>3
  <2>4. UNCHANGED <<xVars, cursor, queueVars, mediaVars, user, stop, row, turn, next, batch, jobVars,
                  histVars>> /\ empties' = 0
    BY <1>3 DEF FetchPage
  <2>5. first' \in BOOLEAN
    BY <1>3 DEF FetchPage
  <2> QED
    BY <2>1, <2>2, <2>3, <2>4, <2>5 DEF TypeOK, xVars, queueVars, mediaVars, jobVars, histVars
<1>4. \A t \in Older : t \in Tweet
  BY PageIsTop, VisibleTweets
<1>5. CASE FetchEmptyPage
  <2>1. first' \in BOOLEAN /\ missed' \subseteq Tweet
    BY <1>4, <1>5 DEF TypeOK, FetchEmptyPage
  <2>2. empties' \in 0..MaxEmptyPages /\ mishaps' \in 0..MaxMishaps
    BY <1>5 DEF TypeOK, FetchEmptyPage
  <2>3. at' \in {"page", "fetched"}
    BY <1>5 DEF FetchEmptyPage
  <2> QED
    BY <1>5, <2>1, <2>2, <2>3
    DEF TypeOK, FetchEmptyPage, xVars, queueVars, mediaVars, workVars, jobVars
<1>6. CASE TimelineEnds
  BY <1>6 DEF TypeOK, TimelineEnds, xVars, queueVars, mediaVars, fetchVars, workVars, jobVars, histVars
<1>7. CASE CutShort
  <2>1. missed' \subseteq Tweet
    BY <1>4, <1>7 DEF TypeOK, CutShort
  <2> QED
    BY <1>7, <2>1 DEF TypeOK, CutShort, xVars, queueVars, mediaVars, fetchVars, workVars, jobVars
<1>8. ASSUME NEW users \in SUBSET User, Enlist(users), UNCHANGED xVars PROVE TypeOK'
  BY <1>8 DEF TypeOK, Enlist, xVars, queueVars, mediaVars, fetchVars, workVars, histVars
<1>9. CASE ResolveUser \/ ResolveList \/ ResolveFollowing
  <2>1. \E users \in SUBSET User : Enlist(users)
    BY <1>9 DEF ResolveUser, ResolveList, ResolveFollowing
  <2> QED BY <1>8, <2>1 DEF Enlist, xVars
<1>10. CASE AdvanceCursor
  <2>1. user \in User
    BY <1>10 DEF AdvanceCursor, Placed, Scanning
  <2>2. Seen \in 0..Last
    <3>1. shown \cup {row} \in SUBSET (0..Last)
      BY <2>1 DEF TypeOK
    <3> QED BY <3>1, MaxIsGreatest DEF Seen
  <2> QED
    BY <1>10, <2>1, <2>2 DEF TypeOK, AdvanceCursor, NextUser, xVars, queueVars, mediaVars, histVars
<1>11. CASE ReadCursor
  <2>1. user \in User
    BY <1>11 DEF ReadCursor, Placed, Scanning
  <2>2. row' \in 0..Last
    BY <1>11, <2>1 DEF TypeOK, ReadCursor
  <2> QED
    BY <1>11, <2>2 DEF TypeOK, ReadCursor, xVars, queueVars, mediaVars, workVars, jobVars, histVars
<1> QED BY <1>1, <1>2, <1>3, <1>5, <1>6, <1>7, <1>9, <1>10, <1>11

LEMMA NextMediaTypes ==
  ASSUME TypeOK, Placed, at = "save", NextMedia
  PROVE  /\ claimed' \subseteq Media /\ found' \subseteq found /\ turn' \in 0..Last /\ next' \in Nat
         /\ at' \in {"save", "advance"} /\ (at' = "advance" => found' = {})
         /\ at' = "save" => turn' \in found' /\ next' \in InGallery(turn')
<1>1. Hand \in Media /\ turn \in Tweet /\ next \in InGallery(turn) /\ next \in Nat
  BY HandIsMedia
<1>2. claimed' \subseteq Media
  BY <1>1 DEF NextMedia, TypeOK
<1>3. CASE next < Len(Gallery[turn]) /\ next' = next + 1 /\ UNCHANGED <<at, turn, found>>
  BY <1>1, <1>2, <1>3, GalleryLength DEF Placed, TypeOK, InGallery
<1>4. CASE next = Len(Gallery[turn]) /\ found' = found \ {turn} /\ next' = 1 /\ found' = {}
           /\ at' = "advance" /\ turn' = 0
  BY <1>2, <1>4, TweetsAreNumbers
<1>5. CASE next = Len(Gallery[turn]) /\ found' = found \ {turn} /\ next' = 1 /\ found' # {}
           /\ UNCHANGED at /\ turn' = Max(found')
  <2>1. turn' \in found' /\ turn' \in Tweet
    BY <1>5, TopOfFound DEF TypeOK
  <2>2. 1 \in InGallery(turn')
    BY <2>1, <1>5, GalleryLength, DataAssumption, EmptySeq DEF Placed, Archivable, InGallery
  <2> QED BY <1>2, <1>5, <2>1, <2>2, TweetsAreNumbers DEF Tweet
<1> QED BY <1>3, <1>4, <1>5 DEF NextMedia

LEMMA TypesOfArchive ==
  ASSUME TypeOK, Placed, Claim \/ SaveMedia \/ SkipMedia \/ RememberMedia
  PROVE  TypeOK'
<1>1. CASE Claim
  <2>1. turn' \in Tweet
    BY <1>1, TopOfFound DEF TypeOK, Claim
  <2> QED
    BY <1>1, <2>1, TweetsAreNumbers
    DEF TypeOK, Claim, xVars, queueVars, mediaVars, fetchVars, jobVars, histVars
<1>2. ASSUME at = "save", NextMedia PROVE Hand \in Media /\ found' \subseteq Tweet
  BY <1>2, HandIsMedia, NextMediaTypes DEF TypeOK
<1>3. CASE SaveMedia
  <2>1. at = "save" /\ Downloads /\ NextMedia
    BY <1>3 DEF SaveMedia
  <2>2. got' \subseteq Media /\ lost' \subseteq Media /\ noted' \subseteq Media
    BY <1>2, <2>1, MediaTypes
  <2> QED
    BY <1>2, <1>3, <2>1, <2>2, NextMediaTypes
    DEF TypeOK, SaveMedia, NextMedia, xVars, queueVars, fetchVars, jobVars
<1>4. CASE SkipMedia
  <2>1. at = "save" /\ NextMedia /\ (Records \/ UNCHANGED mediaVars)
    BY <1>4 DEF SkipMedia
  <2>2. got' \subseteq Media /\ lost' \subseteq Media /\ noted' \subseteq Media
    BY <1>2, <2>1, MediaTypes
  <2>3. trouble' \in BOOLEAN
    BY <1>4 DEF SkipMedia
  <2> QED
    BY <1>2, <1>4, <2>1, <2>2, <2>3, NextMediaTypes
    DEF TypeOK, SkipMedia, NextMedia, xVars, queueVars, fetchVars
<1>5. CASE RememberMedia
  <2>1. at = "save" /\ NextMedia /\ CreateFailedTweet(turn)
    BY <1>5 DEF RememberMedia
  <2>2. turn \in Tweet
    BY <2>1, HandIsMedia
  <2>3. /\ queue' \subseteq Tweet /\ ahead' \in [Tweet -> SUBSET Tweet]
        /\ resting' \subseteq queue' /\ mine' \subseteq Tweet
    BY <2>1, <2>2, QueueTypes DEF CreateFailedTweet, TypeOK, PutLast
  <2>4. trouble' \in BOOLEAN
    BY <1>5 DEF RememberMedia
  <2> QED
    BY <1>2, <1>5, <2>1, <2>3, <2>4, NextMediaTypes
    DEF TypeOK, RememberMedia, NextMedia, xVars, mediaVars, fetchVars
<1> QED BY <1>1, <1>3, <1>4, <1>5

LEMMA TypesOfRetry ==
  ASSUME TypeOK, Placed,
         \/ ListFailedTweets \/ (\E t \in Tweet : RetryTweet(t)) \/ RetryMedia \/ RetrySucceeds \/ RetryFails
  PROVE  TypeOK'
<1>1. CASE ListFailedTweets
  BY <1>1 DEF TypeOK, ListFailedTweets, FirstRows, xVars, queueVars, mediaVars, fetchVars,
              jobVars, histVars
<1>2. ASSUME NEW t \in Tweet, RetryTweet(t) PROVE TypeOK'
  BY <1>2, TweetsAreNumbers DEF TypeOK, RetryTweet, xVars, queueVars, mediaVars, fetchVars,
              jobVars, histVars
<1>3. CASE RetryMedia
  <2>1. Hand \in Media /\ (Downloads \/ UNCHANGED mediaVars) /\ next \in Nat
    BY <1>3, HandIsMedia DEF RetryMedia
  <2> QED
    BY <1>3, <2>1, MediaTypes
    DEF TypeOK, RetryMedia, xVars, queueVars, fetchVars, jobVars, histVars
<1>4. ASSUME at = "try" PROVE turn \in Tweet
  BY <1>4 DEF Placed
<1>5. CASE RetrySucceeds
  <2>1. at = "try" /\ DeleteFailedTweet(turn) /\ NextTweet
    BY <1>5 DEF RetrySucceeds
  <2>2. /\ queue' \subseteq Tweet /\ ahead' \in [Tweet -> SUBSET Tweet]
        /\ resting' \subseteq queue' /\ mine' \subseteq Tweet
    BY <1>4, <2>1, QueueTypes
  <2> QED
    BY <2>1, <2>2, TweetsAreNumbers
    DEF TypeOK, NextTweet, xVars, mediaVars, fetchVars, jobVars, histVars
<1>6. CASE RetryFails
  <2>1. at = "try" /\ TouchFailedTweet(turn) /\ NextTweet
    BY <1>6 DEF RetryFails
  <2>2. /\ queue' \subseteq Tweet /\ ahead' \in [Tweet -> SUBSET Tweet]
        /\ resting' \subseteq queue' /\ mine' \subseteq Tweet
    BY <1>4, <2>1, QueueTypes DEF TouchFailedTweet, TypeOK, PutLast, queueVars
  <2> QED
    BY <2>1, <2>2, TweetsAreNumbers DEF TypeOK, NextTweet, xVars, mediaVars, fetchVars, jobVars, histVars
<1> QED BY <1>1, <1>2, <1>3, <1>5, <1>6

LEMMA TypesOfLink ==
  ASSUME TypeOK, Placed, ParseTweetLink \/ LinkMedia \/ LinkFails \/ ProcessMediaURL
  PROVE  TypeOK'
<1>1. CASE ParseTweetLink
  <2>1. turn' \in Tweet
    BY <1>1, TweetsAreNumbers DEF TypeOK, ParseTweetLink, Tweet
  <2> QED
    BY <1>1, <2>1, TweetsAreNumbers
    DEF TypeOK, ParseTweetLink, xVars, queueVars, mediaVars, fetchVars, jobVars, histVars
<1>2. ASSUME at = "link", next <= Len(Gallery[turn]) PROVE Hand \in Media /\ next \in Nat
  BY <1>2, HandIsMedia
<1>3. CASE LinkMedia
  <2>1. Hand \in Media /\ (Downloads \/ UNCHANGED mediaVars) /\ next \in Nat
    BY <1>2, <1>3 DEF LinkMedia
  <2>2. trouble' \in BOOLEAN
    BY <1>3 DEF LinkMedia, TypeOK
  <2> QED
    BY <1>3, <2>1, <2>2, MediaTypes DEF TypeOK, LinkMedia, xVars, queueVars, fetchVars
<1>4. CASE LinkFails
  <2>1. Hand \in Media /\ (Records \/ UNCHANGED mediaVars)
    BY <1>2, <1>4 DEF LinkFails
  <2>2. got' \subseteq Media /\ lost' \subseteq Media /\ noted' \subseteq Media
    BY <2>1, MediaTypes
  <2>3. mishaps' \in 0..MaxMishaps
    BY <1>4 DEF TypeOK, LinkFails, histVars
  <2> QED
    BY <1>4, <2>2, <2>3, TypeOfIdle DEF LinkFails, histVars
<1>5. CASE ProcessMediaURL
  <2>1. \E v \in {"completed", "failed"} : EndJob(v)
    BY <1>5 DEF ProcessMediaURL
  <2>2. got' \subseteq Media /\ lost' \subseteq Media /\ noted' \subseteq Media
    BY <1>5 DEF ProcessMediaURL, TypeOK, mediaVars
  <2>3. mishaps' \in 0..MaxMishaps
    BY <1>5 DEF TypeOK, ProcessMediaURL, histVars
  <2> QED
    BY <1>5, <2>1, <2>2, <2>3, TypeOfIdle DEF ProcessMediaURL, histVars
<1> QED BY <1>1, <1>3, <1>4, <1>5

LEMMA TypesOfLife ==
  ASSUME TypeOK, \/ \E k \in {"archive", "link", "retry", "auto"} : Start(k)
                 \/ StartAgain \/ Upset \/ Fail \/ CompleteArchive \/ CompleteRetry \/ CompleteLink
  PROVE  TypeOK'
<1>1. ASSUME NEW k \in {"archive", "link", "retry", "auto"}, Start(k) PROVE TypeOK'
  <2>1. trouble' \in BOOLEAN
    BY <1>1 DEF Start
  <2> QED
    BY <1>1, <2>1 DEF TypeOK, Start, xVars, mediaVars, fetchVars, workVars
<1>2. CASE StartAgain
  <2>1. trouble' \in BOOLEAN
    BY <1>2 DEF StartAgain
  <2> QED
    BY <1>2, <2>1 DEF TypeOK, StartAgain, xVars, queueVars, mediaVars, fetchVars, workVars, histVars
<1>3. ASSUME NEW v \in {"completed", "completed_with_errors", "failed", "interrupted"}, EndJob(v),
             UNCHANGED <<xVars, cursor, queueVars, mediaVars, kind, trouble, claimed, missed, forgone>>,
             mishaps' \in 0..MaxMishaps
      PROVE  TypeOK'
  BY <1>3, TypeOfIdle DEF TypeOK, mediaVars
<1>4. CASE Upset
  <2>1. mishaps' \in 0..MaxMishaps
    BY <1>4, LimitAssumption DEF TypeOK, Upset, Mishap
  <2> QED BY <1>3, <1>4, <2>1 DEF Upset
<1>5. ASSUME UNCHANGED mishaps PROVE mishaps' \in 0..MaxMishaps
  BY <1>5 DEF TypeOK
<1>6. CASE Fail
  BY <1>3, <1>5, <1>6 DEF Fail, histVars
<1>7. CASE CompleteArchive
  BY <1>3, <1>5, <1>7 DEF CompleteArchive, histVars
<1>8. CASE CompleteRetry
  BY <1>3, <1>5, <1>8 DEF CompleteRetry, histVars
<1>9. CASE CompleteLink
  BY <1>3, <1>5, <1>9 DEF CompleteLink, histVars
<1> QED BY <1>1, <1>2, <1>4, <1>6, <1>7, <1>8, <1>9

LEMMA InitTypes == Init => TypeOK
<1> SUFFICES ASSUME Init PROVE TypeOK
  OBVIOUS
<1>1. trouble \in BOOLEAN /\ first \in BOOLEAN
  BY DEF Init
<1>2. /\ pinned \in [User -> 0..Last] /\ cursor \in [User -> 0..Last]
      /\ ahead \in [Tweet -> SUBSET Tweet]
  BY TweetsAreNumbers DEF Init
<1> QED BY <1>1, <1>2, TweetsAreNumbers, LimitAssumption DEF Init, TypeOK

LEMMA StepTypes == TypeOK /\ Placed /\ [Next]_vars => TypeOK'
<1> SUFFICES ASSUME TypeOK, Placed, [Next]_vars PROVE TypeOK'
  OBVIOUS
<1>1. CASE UNCHANGED vars
  BY <1>1 DEF TypeOK, vars
<1>2. CASE Next
  BY <1>2, TypesOutside, TypesOfScan, TypesOfArchive, TypesOfRetry, TypesOfLink, TypesOfLife
  DEF Next, Work, StartRetry
<1> QED BY <1>1, <1>2

-----------------------------------------------------------------------------
(* The place of the job.                                                   *)
LEMMA SamePlace ==
  ASSUME Placed, UNCHANGED <<at, kind, verdict, cursor, user, stop, row, found, turn, next>>
  PROVE  Placed'
BY DEF Placed, Scanning, InGallery, Archivable

LEMMA IdlePlace == ASSUME NEW v, EndJob(v) PROVE Placed'
BY DEF EndJob, Placed, Scanning

LEMMA PlacedOutside ==
  ASSUME Placed,
         \/ Post \/ \E u \in User : Pin(u)
         \/ \E t \in Tweet : DeleteTweet(t) \/ Forget(t) \/ PauseEnds(t)
  PROVE  Placed'
BY SamePlace DEF Post, Pin, DeleteTweet, Forget, PauseEnds, Remote, fetchVars, workVars, jobVars

LEMMA PlacedInLife ==
  ASSUME TypeOK, Placed,
         \/ \E k \in {"archive", "link", "retry", "auto"} : Start(k)
         \/ StartAgain \/ Upset \/ Fail \/ CompleteArchive \/ CompleteRetry \/ CompleteLink
         \/ LinkFails \/ ProcessMediaURL
  PROVE  Placed'
<1>1. ASSUME NEW v, EndJob(v) PROVE Placed'
  BY <1>1, IdlePlace
<1>2. ASSUME (\E k \in {"archive", "link", "retry", "auto"} : Start(k)) \/ StartAgain PROVE Placed'
  BY <1>2 DEF Start, StartAgain, Placed, Scanning, workVars, Archivable
<1> QED
  BY <1>1, <1>2 DEF Upset, Fail, CompleteArchive, CompleteRetry, CompleteLink, LinkFails, ProcessMediaURL

LEMMA PlacedInScan ==
  ASSUME TypeOK, Placed,
         \/ (\E u \in User : TakeUser(u)) \/ PassOver \/ FetchPage \/ FetchEmptyPage
         \/ TimelineEnds \/ CutShort
         \/ ResolveUser \/ ResolveList \/ ResolveFollowing \/ ReadCursor \/ AdvanceCursor
  PROVE  Placed'
<1> USE DEF Placed, Scanning, Archivable
<1>1. ASSUME NEW u \in User, TakeUser(u) PROVE Placed'
  BY <1>1 DEF TakeUser
<1>2. ASSUME PassOver \/ AdvanceCursor PROVE Placed'
  BY <1>2 DEF PassOver, AdvanceCursor, NextUser
<1>3. CASE FetchPage
  <2>1. \A t \in found' : Archivable(t)
    BY <1>3 DEF FetchPage
  <2> QED BY <1>3, <2>1 DEF FetchPage, jobVars
<1>4. ASSUME FetchEmptyPage \/ TimelineEnds \/ CutShort PROVE Placed'
  BY <1>4 DEF FetchEmptyPage, TimelineEnds, CutShort, fetchVars, workVars, jobVars
<1>5. ASSUME ResolveUser \/ ResolveList \/ ResolveFollowing PROVE Placed'
  BY <1>5 DEF ResolveUser, ResolveList, ResolveFollowing, Enlist, workVars
<1>6. CASE ReadCursor
  BY <1>6 DEF ReadCursor, workVars, jobVars
<1> QED BY <1>1, <1>2, <1>3, <1>4, <1>5, <1>6

LEMMA PlacedInArchive ==
  ASSUME TypeOK, Placed, Claim \/ SaveMedia \/ SkipMedia \/ RememberMedia
  PROVE  Placed'
<1>1. CASE Claim
  <2>1. turn' \in found /\ turn' \in Tweet
    BY <1>1, TopOfFound DEF TypeOK, Claim
  <2>2. 1 \in InGallery(turn')
    BY <2>1, GalleryLength, DataAssumption, EmptySeq DEF Placed, Archivable, InGallery
  <2> QED
    BY <1>1, <2>1, <2>2 DEF Placed, Claim, Scanning, fetchVars, jobVars, InGallery
<1>2. ASSUME at = "save", NextMedia, UNCHANGED <<cursor, kind, verdict, fetchVars>> PROVE Placed'
  <2>1. /\ at' \in {"save", "advance"} /\ found' \subseteq found
        /\ at' = "advance" => found' = {}
        /\ at' = "save" => turn' \in found' /\ next' \in InGallery(turn')
    BY <1>2, NextMediaTypes
  <2> QED
    BY <1>2, <2>1 DEF Placed, Scanning, fetchVars, InGallery, Archivable
<1> QED
  BY <1>1, <1>2 DEF SaveMedia, SkipMedia, RememberMedia, jobVars

LEMMA PlacedInRetry ==
  ASSUME TypeOK, Placed,
         \/ ListFailedTweets \/ (\E t \in Tweet : RetryTweet(t)) \/ RetryMedia
         \/ RetrySucceeds \/ RetryFails \/ ParseTweetLink \/ LinkMedia
  PROVE  Placed'
<1> USE DEF Placed, Scanning, Archivable
<1>1. CASE ListFailedTweets
  BY <1>1 DEF ListFailedTweets, jobVars
<1>2. ASSUME NEW t \in Tweet, RetryTweet(t) PROVE Placed'
  BY <1>2, GalleryLength DEF RetryTweet, jobVars
<1>3. CASE RetryMedia
  BY <1>3, GalleryLength DEF RetryMedia, jobVars
<1>4. CASE LinkMedia
  BY <1>4, GalleryLength DEF LinkMedia, jobVars
<1>5. ASSUME RetrySucceeds \/ RetryFails PROVE Placed'
  BY <1>5 DEF RetrySucceeds, RetryFails, NextTweet, jobVars
<1>6. CASE ParseTweetLink
  <2>1. turn' \in Tweet
    BY <1>6, TweetsAreNumbers DEF TypeOK, ParseTweetLink, Tweet
  <2> QED BY <1>6, <2>1, GalleryLength DEF ParseTweetLink, jobVars
<1> QED BY <1>1, <1>2, <1>3, <1>4, <1>5, <1>6

LEMMA StepPlaced == TypeOK /\ Placed /\ [Next]_vars => Placed'
<1> SUFFICES ASSUME TypeOK, Placed, [Next]_vars PROVE Placed'
  OBVIOUS
<1>1. CASE UNCHANGED vars
  BY <1>1, SamePlace DEF vars
<1>2. CASE Next
  BY <1>2, PlacedOutside, PlacedInLife, PlacedInScan, PlacedInArchive, PlacedInRetry
  DEF Next, Work, StartRetry
<1> QED BY <1>1, <1>2

-----------------------------------------------------------------------------
(* What never shrinks, and that a media once settled stays settled: a row  *)
(* leaves the queue when the user removes it or when every media of its    *)
(* tweet is in place.                                                      *)
Grows ==
  /\ posted' \in Int /\ posted <= posted'
  /\ deleted \subseteq deleted' /\ missed \subseteq missed' /\ forgone \subseteq forgone'
  /\ got \subseteq got' /\ lost \subseteq lost' /\ noted \subseteq noted'

Outsiders ==
  \/ Post \/ \E u \in User : Pin(u)
  \/ \E t \in Tweet : DeleteTweet(t) \/ Forget(t) \/ PauseEnds(t)

Life ==
  \/ \E k \in {"archive", "link", "retry", "auto"} : Start(k)
  \/ StartAgain \/ Upset \/ Fail \/ CompleteArchive \/ CompleteRetry \/ CompleteLink

Scan ==
  \/ (\E u \in User : TakeUser(u)) \/ PassOver \/ FetchPage \/ FetchEmptyPage
  \/ TimelineEnds \/ CutShort \/ ResolveUser \/ ResolveList \/ ResolveFollowing

LEMMA StepGrows == TypeOK /\ [Next]_vars => Grows
<1> SUFFICES ASSUME TypeOK, [Next]_vars PROVE Grows
  OBVIOUS
<1> USE TweetsAreNumbers DEF TypeOK, Grows
<1>1. CASE Outsiders
  BY <1>1 DEF Outsiders, Post, Pin, DeleteTweet, Forget, PauseEnds, Remote, xVars, mediaVars, histVars
<1>2. CASE Life
  BY <1>2 DEF Life, Start, StartAgain, Upset, Fail, CompleteArchive, CompleteRetry, CompleteLink,
              xVars, mediaVars, histVars
<1>3. CASE Scan
  <2>1. UNCHANGED <<xVars, mediaVars, forgone>> /\ missed \subseteq missed'
    BY <1>3 DEF Scan, TakeUser, PassOver, FetchPage, FetchEmptyPage, TimelineEnds, CutShort,
                ResolveUser, ResolveList, ResolveFollowing, Enlist, histVars
  <2> QED BY <2>1 DEF xVars, mediaVars
<1>4. CASE ReadCursor \/ AdvanceCursor \/ Claim \/ SaveMedia \/ SkipMedia \/ RememberMedia
  BY <1>4 DEF ReadCursor, AdvanceCursor, Claim, SaveMedia, SkipMedia, RememberMedia, NextMedia,
              Downloads, Records, xVars, mediaVars, histVars
<1>5. CASE ListFailedTweets \/ (\E t \in Tweet : RetryTweet(t)) \/ RetryMedia
           \/ RetrySucceeds \/ RetryFails
  BY <1>5 DEF ListFailedTweets, RetryTweet, RetryMedia, RetrySucceeds, RetryFails, NextTweet,
              Downloads, xVars, mediaVars, histVars
<1>6. CASE ParseTweetLink \/ LinkMedia \/ LinkFails \/ ProcessMediaURL
  BY <1>6 DEF ParseTweetLink, LinkMedia, LinkFails, ProcessMediaURL, Downloads, Records,
              xVars, mediaVars, histVars
<1>7. CASE UNCHANGED vars
  BY <1>7 DEF vars
<1> QED
  BY <1>1, <1>2, <1>3, <1>4, <1>5, <1>6, <1>7
  DEF Outsiders, Life, Scan, Next, Work, StartRetry

LEMMA StepQueue ==
  TypeOK /\ [Next]_vars => queue \subseteq queue' \cup forgone' \/ RetrySucceeds
<1> SUFFICES ASSUME TypeOK, [Next]_vars, ~RetrySucceeds
             PROVE  queue \subseteq queue' \cup forgone'
  OBVIOUS
<1>1. CASE Outsiders
  BY <1>1 DEF Outsiders, Post, Pin, DeleteTweet, Forget, PauseEnds, Remote, DeleteFailedTweet, queueVars
<1>2. CASE Life
  BY <1>2 DEF Life, Start, StartAgain, Upset, Fail, CompleteArchive, CompleteRetry, CompleteLink,
              queueVars
<1>3. CASE Scan
  BY <1>3 DEF Scan, TakeUser, PassOver, FetchPage, FetchEmptyPage, TimelineEnds, CutShort,
              ResolveUser, ResolveList, ResolveFollowing, Enlist, queueVars
<1>4. CASE ReadCursor \/ AdvanceCursor \/ Claim \/ SaveMedia \/ SkipMedia \/ RememberMedia
  BY <1>4 DEF ReadCursor, AdvanceCursor, Claim, SaveMedia, SkipMedia, RememberMedia,
              CreateFailedTweet, PutLast, queueVars
<1>5. CASE ListFailedTweets \/ (\E t \in Tweet : RetryTweet(t)) \/ RetryMedia \/ RetryFails
  BY <1>5 DEF ListFailedTweets, RetryTweet, RetryMedia, RetryFails, TouchFailedTweet, PutLast, queueVars
<1>6. CASE ParseTweetLink \/ LinkMedia \/ LinkFails \/ ProcessMediaURL
  BY <1>6 DEF ParseTweetLink, LinkMedia, LinkFails, ProcessMediaURL, queueVars
<1>7. CASE UNCHANGED vars
  BY <1>7 DEF vars
<1> QED
  BY <1>1, <1>2, <1>3, <1>4, <1>5, <1>6, <1>7
  DEF Outsiders, Life, Scan, Next, Work, StartRetry

LEMMA RetrySettles ==
  ASSUME TypeOK, Placed, Handled, RetrySucceeds, NEW m \in Media, m[1] = turn
  PROVE  InPlace(m)
<1>1. at = "try" /\ turn \in Tweet /\ next \in Nat /\ next > Len(Gallery[turn])
  BY GalleryLength DEF RetrySucceeds, Placed, TypeOK
<1>2. m = <<turn, m[2]>> /\ m[2] \in 1..next - 1
  BY <1>1, MediaParts, GalleryLength DEF InGallery
<1> QED BY <1>1, <1>2 DEF Handled

LEMMA SettledStays ==
  ASSUME TypeOK, Placed, Handled, [Next]_vars, NEW m \in Media, Settled(m)
  PROVE  Settled(m)'
<1>1. Grows
  BY StepGrows
<1>2. CASE RetrySucceeds /\ m[1] = turn
  BY <1>1, <1>2, RetrySettles DEF InPlace, Settled, Grows, FateOf
<1>3. CASE RetrySucceeds /\ m[1] # turn
  BY <1>1, <1>3 DEF RetrySucceeds, DeleteFailedTweet, Settled, Grows, FateOf
<1>4. CASE ~RetrySucceeds
  BY <1>1, <1>4, StepQueue DEF Settled, Grows, FateOf
<1> QED BY <1>2, <1>3, <1>4

LEMMA InPlaceStays ==
  ASSUME TypeOK, [Next]_vars, NEW m \in Media, InPlace(m)
  PROVE  InPlace(m)'
BY StepGrows DEF InPlace, Grows, FateOf

-----------------------------------------------------------------------------
(* What is done of the tweet at hand.                                      *)
SavesMedia == SaveMedia \/ SkipMedia \/ RememberMedia

LEMMA HandMoves ==
  TypeOK /\ [Next]_vars =>
    \/ UNCHANGED <<at, turn, next>> \/ at' \notin {"save", "try"} \/ next' = 1
    \/ SavesMedia \/ RetryMedia
<1> SUFFICES ASSUME [Next]_vars, ~SavesMedia, ~RetryMedia
             PROVE  UNCHANGED <<at, turn, next>> \/ at' \notin {"save", "try"} \/ next' = 1
  OBVIOUS
<1>1. CASE Outsiders
  BY <1>1 DEF Outsiders, Post, Pin, DeleteTweet, Forget, PauseEnds, Remote, workVars
<1>2. CASE Life
  BY <1>2 DEF Life, Start, StartAgain, Upset, Fail, CompleteArchive, CompleteRetry, CompleteLink, EndJob
<1>3. CASE Scan
  BY <1>3 DEF Scan, TakeUser, PassOver, NextUser, FetchPage, FetchEmptyPage, TimelineEnds, CutShort,
              ResolveUser, ResolveList, ResolveFollowing, Enlist, workVars
<1>4. CASE ReadCursor \/ AdvanceCursor \/ Claim \/ ListFailedTweets \/ (\E t \in Tweet : RetryTweet(t))
           \/ RetrySucceeds \/ RetryFails
  BY <1>4 DEF ReadCursor, AdvanceCursor, NextUser, Claim, ListFailedTweets, RetryTweet, RetrySucceeds, RetryFails,
              NextTweet
<1>5. CASE ParseTweetLink \/ LinkMedia \/ LinkFails \/ ProcessMediaURL
  BY <1>5 DEF ParseTweetLink, LinkMedia, LinkFails, ProcessMediaURL, EndJob
<1>6. CASE UNCHANGED vars
  BY <1>6 DEF vars
<1> QED
  BY <1>1, <1>2, <1>3, <1>4, <1>5, <1>6 DEF Outsiders, Life, Scan, SavesMedia, Next, Work, StartRetry

LEMMA HandSettles ==
  ASSUME TypeOK, Placed, SavesMedia, NEW m, m = Hand
  PROVE  Settled(m)'
<1>1. turn \in Tweet /\ at = "save" /\ m[1] = turn
  BY HandIsMedia DEF SavesMedia, SaveMedia, SkipMedia, RememberMedia, Hand
<1>2. CASE SaveMedia
  BY <1>2 DEF SaveMedia, Downloads, Settled, FateOf
<1>3. CASE SkipMedia
  BY <1>3 DEF SkipMedia, Records, Settled, FateOf
<1>4. CASE RememberMedia
  BY <1>1, <1>4 DEF RememberMedia, CreateFailedTweet, PutLast, Settled, FateOf
<1> QED BY <1>2, <1>3, <1>4 DEF SavesMedia

(* A media saved is settled, so a tweet that is left is.                   *)
LEMMA NextIsHandled ==
  ASSUME TypeOK, Placed, Handled, [Next]_vars, SavesMedia
  PROVE  /\ at = "save" /\ turn \in found /\ turn \in Tweet
         /\ \A m \in Media : m[1] = turn /\ m[2] <= next => Settled(m)'
         /\ \/ turn' = turn /\ found' = found /\ next' = next + 1 /\ at' = "save" /\ next \in Nat
            \/ next' = 1 /\ found' = found \ {turn} /\ next = Len(Gallery[turn])
<1>1. at = "save" /\ NextMedia
  BY DEF SavesMedia, SaveMedia, SkipMedia, RememberMedia
<1>2. turn \in found /\ turn \in Tweet /\ next \in InGallery(turn) /\ next \in Nat
  BY <1>1, HandIsMedia DEF Placed
<1>3. ASSUME NEW m \in Media, m[1] = turn, m[2] <= next PROVE Settled(m)'
  <2>1. m = <<turn, m[2]>> /\ m[2] \in 1..next
    BY <1>2, <1>3, MediaParts, GalleryLength DEF InGallery
  <2>2. CASE m[2] = next
    BY <2>1, <2>2, HandSettles DEF Hand
  <2>3. CASE m[2] # next
    <3>1. m[2] \in 1..next - 1
      BY <1>2, <2>1, <2>3
    <3>2. Settled(m)
      BY <1>1, <2>1, <3>1 DEF Handled
    <3> QED BY <3>2, SettledStays
  <2> QED BY <2>2, <2>3
<1> QED
  BY <1>1, <1>2, <1>3 DEF NextMedia

LEMMA StepHandled ==
  ASSUME TypeOK, Placed, Handled, [Next]_vars
  PROVE  Handled'
<1>1. at \in {"save", "try"} => \A i \in 1..next - 1 : <<turn, i>> \in Media
  BY MediaOfTweet, GalleryLength DEF Placed, InGallery, TypeOK
<1>2. CASE UNCHANGED <<at, turn, next>>
  <2>1. ASSUME at = "save", NEW i \in 1..next - 1 PROVE Settled(<<turn, i>>)'
    <3>1. PICK m \in Media : m = <<turn, i>>
      BY <1>1, <2>1
    <3>2. Settled(m)
      BY <2>1, <3>1 DEF Handled
    <3>3. Settled(m)'
      BY <3>2, SettledStays
    <3> QED BY <1>2, <3>1, <3>3
  <2>2. ASSUME at = "try", NEW i \in 1..next - 1 PROVE InPlace(<<turn, i>>)'
    <3>1. PICK m \in Media : m = <<turn, i>>
      BY <1>1, <2>2
    <3>2. InPlace(m)
      BY <2>2, <3>1 DEF Handled
    <3>3. InPlace(m)'
      BY <3>2, InPlaceStays
    <3> QED BY <1>2, <3>1, <3>3
  <2> QED BY <1>2, <2>1, <2>2 DEF Handled
<1>3. CASE at' \notin {"save", "try"}
  BY <1>3 DEF Handled
<1>4. CASE next' = 1
  BY <1>4 DEF Handled
<1>5. CASE SavesMedia /\ next' # 1
  <2>1. at' = "save" /\ turn' = turn /\ turn \in Tweet /\ next' = next + 1 /\ next \in InGallery(turn)
        /\ next \in Nat
    BY <1>5, NextIsHandled, HandIsMedia
  <2>2. ASSUME NEW i \in 1..next PROVE Settled(<<turn, i>>)'
    <3>0. i \in InGallery(turn)
      BY <2>1, GalleryLength DEF InGallery
    <3>1. PICK m \in Media : m = <<turn, i>> /\ m[1] = turn /\ m[2] = i
      BY <2>1, <3>0, MediaOfTweet
    <3>2. Settled(m)'
      BY <1>5, <2>1, <3>1, NextIsHandled
    <3> QED BY <2>1, <3>1, <3>2
  <2> QED BY <2>1, <2>2 DEF Handled
<1>6. CASE RetryMedia
  <2>1. at = "try" /\ at' = "try" /\ turn' = turn /\ next' = next + 1 /\ next \in Nat
    BY <1>6 DEF RetryMedia, TypeOK
  <2>2. ASSUME NEW i \in 1..next PROVE InPlace(<<turn, i>>)'
    <3>1. CASE i = next
      BY <1>6, <2>1, <3>1 DEF RetryMedia, Downloads, InPlace, FateOf, Hand
    <3>2. CASE i # next
      <4>0. i \in 1..next - 1
        BY <2>1, <3>2
      <4>1. PICK n \in Media : n = <<turn, i>>
        BY <1>1, <2>1, <4>0
      <4>2. InPlace(n)
        BY <2>1, <4>0, <4>1 DEF Handled
      <4>3. InPlace(n)'
        BY <4>2, InPlaceStays
      <4> QED BY <2>1, <4>1, <4>3
    <3> QED BY <3>1, <3>2
  <2> QED BY <2>1, <2>2 DEF Handled
<1> QED BY <1>2, <1>3, <1>4, <1>5, <1>6, HandMoves

-----------------------------------------------------------------------------
(* What the job has tried.                                                 *)
LEMMA StepClaims ==
  TypeOK /\ Placed /\ [Next]_vars =>
    \/ claimed' = {} /\ mine' = {}
    \/ SavesMedia \/ LinkMedia
    \/ /\ UNCHANGED <<kind, claimed>> /\ mine' \subseteq mine
       /\ mine \cap queue \subseteq (mine' \cap queue') \cup forgone' \/ RetrySucceeds
<1> SUFFICES ASSUME TypeOK, Placed, [Next]_vars, ~SavesMedia, ~LinkMedia
             PROVE  \/ claimed' = {} /\ mine' = {}
                    \/ /\ UNCHANGED <<kind, claimed>> /\ mine' \subseteq mine
                       /\ mine \cap queue \subseteq (mine' \cap queue') \cup forgone' \/ RetrySucceeds
  OBVIOUS
<1>1. CASE Outsiders
  BY <1>1 DEF Outsiders, Post, Pin, DeleteTweet, Forget, PauseEnds, Remote, DeleteFailedTweet, queueVars,
              jobVars, histVars
<1>2. CASE Life
  BY <1>2 DEF Life, Start, StartAgain, Upset, Fail, CompleteArchive, CompleteRetry, CompleteLink,
              queueVars, jobVars, histVars
<1>3. CASE Scan
  BY <1>3 DEF Scan, TakeUser, PassOver, FetchPage, FetchEmptyPage, TimelineEnds, CutShort,
              ResolveUser, ResolveList, ResolveFollowing, Enlist, queueVars, jobVars, histVars
<1>4. CASE ReadCursor \/ AdvanceCursor \/ Claim
  BY <1>4 DEF ReadCursor, AdvanceCursor, Claim, queueVars, jobVars, histVars
<1>5. CASE ListFailedTweets \/ (\E t \in Tweet : RetryTweet(t)) \/ RetryMedia \/ RetryFails
  BY <1>5 DEF ListFailedTweets, RetryTweet, RetryMedia, RetryFails, NextTweet, TouchFailedTweet, PutLast,
              queueVars, jobVars, histVars
<1>6. CASE RetrySucceeds
  BY <1>6 DEF RetrySucceeds, NextTweet, DeleteFailedTweet, jobVars, histVars
<1>7. CASE ParseTweetLink \/ LinkFails \/ ProcessMediaURL
  BY <1>7 DEF ParseTweetLink, LinkFails, ProcessMediaURL, queueVars, jobVars, histVars
<1>8. CASE UNCHANGED vars
  BY <1>8 DEF vars
<1> QED
  BY <1>1, <1>2, <1>3, <1>4, <1>5, <1>6, <1>7, <1>8
  DEF Outsiders, Life, Scan, SavesMedia, Next, Work, StartRetry

(* The media at hand is there, cannot be, or waits in a row of the job.    *)
LEMMA HandIsClaimed ==
  ASSUME TypeOK, Placed, SavesMedia \/ LinkMedia, NEW m, m = Hand, FateOf(m) \in {"plain", "lost"}
  PROVE  m \in got' \cup lost' \/ m[1] \in mine' \cap queue'
<1>1. CASE SaveMedia \/ LinkMedia
  BY <1>1 DEF SaveMedia, LinkMedia, Downloads
<1>2. CASE SkipMedia
  BY <1>2 DEF SkipMedia, Records
<1>3. CASE RememberMedia
  BY <1>3 DEF RememberMedia, CreateFailedTweet, PutLast, Hand
<1> QED BY <1>1, <1>2, <1>3 DEF SavesMedia

LEMMA ClaimingSteps ==
  ASSUME TypeOK, Placed, SavesMedia \/ LinkMedia
  PROVE  /\ claimed' = claimed \cup {Hand} /\ UNCHANGED kind
         /\ \/ kind = "archive" /\ mine \subseteq mine' /\ queue \subseteq queue'
            \/ kind = "link" /\ UNCHANGED <<mine, queue>>
<1>1. CASE SaveMedia \/ SkipMedia \/ RememberMedia
  BY <1>1 DEF SaveMedia, SkipMedia, RememberMedia, NextMedia, CreateFailedTweet, PutLast, Placed, Scanning,
              queueVars, jobVars
<1>2. CASE LinkMedia
  BY <1>2 DEF LinkMedia, Placed, queueVars
<1> QED BY <1>1, <1>2 DEF SavesMedia

LEMMA ClaimsPreserved ==
  ASSUME TypeOK, Placed, ClaimsOK, [Next]_vars
  PROVE  ClaimsOK'
<1>1. Grows
  BY StepGrows
<1>2. CASE claimed' = {} /\ mine' = {}
  BY <1>2 DEF ClaimsOK
<1>3. CASE SavesMedia \/ LinkMedia
  <2>1. ASSUME NEW m \in claimed', FateOf(m) \in {"plain", "lost"}
        PROVE  m \in got' \cup lost' \/ m[1] \in forgone' \cup (mine' \cap queue')
    <3>1. CASE m = Hand
      BY <1>3, <2>1, <3>1, HandIsClaimed
    <3>2. CASE m \in claimed
      BY <1>1, <1>3, <2>1, <3>2, ClaimingSteps DEF ClaimsOK, Grows
    <3> QED BY <1>3, <3>1, <3>2, ClaimingSteps
  <2> QED BY <1>3, <2>1, ClaimingSteps DEF ClaimsOK, FateOf
<1>4. CASE /\ UNCHANGED <<kind, claimed>> /\ mine' \subseteq mine
           /\ mine \cap queue \subseteq (mine' \cap queue') \cup forgone' \/ RetrySucceeds
  <2>1. RetrySucceeds => claimed = {}
    BY DEF RetrySucceeds, Placed, ClaimsOK
  <2> QED BY <1>1, <1>4, <2>1 DEF ClaimsOK, Grows, FateOf
<1> QED BY <1>2, <1>3, <1>4, StepClaims

LEMMA VerdictMoves ==
  ASSUME TypeOK, Placed, [Next]_vars, verdict' = "completed"
  PROVE  \/ verdict = "completed" /\ claimed' = claimed
         \/ CompleteArchive \/ CompleteRetry \/ CompleteLink \/ ProcessMediaURL
<1>1. CASE Outsiders
  BY <1>1 DEF Outsiders, Post, Pin, DeleteTweet, Forget, PauseEnds, Remote, jobVars, histVars
<1>2. CASE Life
  BY <1>2 DEF Life, Start, StartAgain, Upset, Fail, EndJob
<1>3. CASE Scan
  BY <1>3 DEF Scan, TakeUser, PassOver, FetchPage, FetchEmptyPage, TimelineEnds, CutShort,
              ResolveUser, ResolveList, ResolveFollowing, Enlist, jobVars, histVars, Placed
<1>4. CASE ReadCursor \/ AdvanceCursor \/ Claim \/ SaveMedia \/ SkipMedia \/ RememberMedia
  BY <1>4 DEF ReadCursor, AdvanceCursor, Claim, SaveMedia, SkipMedia, RememberMedia, jobVars, Placed
<1>5. CASE ListFailedTweets \/ (\E t \in Tweet : RetryTweet(t)) \/ RetryMedia
           \/ RetrySucceeds \/ RetryFails
  BY <1>5 DEF ListFailedTweets, RetryTweet, RetryMedia, RetrySucceeds, RetryFails, NextTweet, jobVars, Placed
<1>6. CASE ParseTweetLink \/ LinkMedia \/ LinkFails
  BY <1>6 DEF ParseTweetLink, LinkMedia, LinkFails, EndJob, jobVars, Placed
<1>7. CASE UNCHANGED vars
  BY <1>7 DEF vars
<1> QED
  BY <1>1, <1>2, <1>3, <1>4, <1>5, <1>6, <1>7 DEF Outsiders, Life, Scan, Next, Work, StartRetry

LEMMA StepVerdict ==
  ASSUME TypeOK, Placed, ClaimsOK, CleanVerdict, [Next]_vars
  PROVE  CleanVerdict'
<1>1. Grows
  BY StepGrows
<1>2. SUFFICES ASSUME verdict' = "completed", NEW m \in claimed', FateOf(m) \in {"plain", "lost"}
               PROVE  m \in got' \cup lost' \/ m[1] \in forgone'
  BY DEF CleanVerdict, FateOf
<1>3. CASE verdict = "completed" /\ claimed' = claimed
  BY <1>1, <1>2, <1>3 DEF CleanVerdict, Grows
<1>4. CASE CompleteArchive
  <2>1. mine \cap queue = {} /\ claimed' = claimed
    BY <1>2, <1>4 DEF CompleteArchive, EndJob, Clean, histVars
  <2> QED BY <1>1, <1>2, <2>1 DEF ClaimsOK, Grows
<1>5. CASE CompleteRetry
  BY <1>2, <1>5 DEF CompleteRetry, Placed, ClaimsOK, histVars
<1>6. CASE CompleteLink \/ ProcessMediaURL
  <2>1. mine = {} /\ claimed' = claimed
    BY <1>6 DEF CompleteLink, ProcessMediaURL, Placed, ClaimsOK, histVars
  <2> QED BY <1>1, <1>2, <2>1 DEF ClaimsOK, Grows
<1> QED BY <1>2, <1>3, <1>4, <1>5, <1>6, VerdictMoves

-----------------------------------------------------------------------------
(* The scan of a timeline.                                                 *)
LEMMA ScanMoves ==
  ASSUME TypeOK, [Next]_vars, Scanning'
  PROVE  \/ \E u \in User : TakeUser(u)
         \/ FetchPage \/ FetchEmptyPage \/ TimelineEnds \/ CutShort
         \/ SavesMedia
         \/ /\ Scanning /\ UNCHANGED <<user, stop, first, below, shown, found>>
            /\ at' = "page" <=> at = "page"
<1> USE DEF Scanning
<1>1. CASE Outsiders
  BY <1>1 DEF Outsiders, Post, Pin, DeleteTweet, Forget, PauseEnds, Remote, fetchVars, workVars
<1>2. CASE Life
  BY <1>2 DEF Life, Start, StartAgain, Upset, Fail, CompleteArchive, CompleteRetry, CompleteLink, EndJob
<1>3. CASE PassOver \/ ResolveUser \/ ResolveList \/ ResolveFollowing \/ AdvanceCursor
  BY <1>3 DEF PassOver, NextUser, ResolveUser, ResolveList, ResolveFollowing, Enlist, AdvanceCursor
<1>4. CASE ReadCursor \/ Claim
  BY <1>4 DEF ReadCursor, Claim, fetchVars, workVars
<1>5. CASE ListFailedTweets \/ (\E t \in Tweet : RetryTweet(t)) \/ RetryMedia
           \/ RetrySucceeds \/ RetryFails
  BY <1>5 DEF ListFailedTweets, RetryTweet, RetryMedia, RetrySucceeds, RetryFails, NextTweet
<1>6. CASE ParseTweetLink \/ LinkMedia \/ LinkFails \/ ProcessMediaURL
  BY <1>6 DEF ParseTweetLink, LinkMedia, LinkFails, ProcessMediaURL, EndJob
<1>7. CASE UNCHANGED vars
  BY <1>7 DEF vars
<1> QED
  BY <1>1, <1>2, <1>3, <1>4, <1>5, <1>6, <1>7 DEF Outsiders, Life, SavesMedia, Next, Work, StartRetry

(* No other tweet comes within reach of those shown.                       *)
LEMMA ReachStays ==
  ASSUME TypeOK, [Next]_vars, UNCHANGED <<user, shown>>
  PROVE  Reached' \subseteq Reached
BY StepGrows DEF Reached, Grows

LEMMA ReachedIsVisible ==
  ASSUME TypeOK, ShownOK, NEW t \in Reached
  PROVE  t \in Visible(user) /\ t \in Tweet /\ (t < below => t \in Older)
<1>1. PICK s \in shown : t <= s
  BY DEF Reached
<1>2. t \in Tweet /\ Author[t] = user /\ t \notin deleted /\ s \in 1..posted
  BY DEF Reached, ShownOK
<1>3. t \in 1..posted
  BY <1>1, <1>2, TweetsAreNumbers DEF Tweet, TypeOK
<1> QED BY <1>2, <1>3 DEF Visible, Older

(* A tweet that is settled, or still to archive, stays so.                 *)
LEMMA AboveStays ==
  ASSUME TypeOK, Placed, Handled, Above, [Next]_vars, UNCHANGED stop,
         NEW t \in shown, t > stop', Archivable(t),
         t \in found => t \in found' \/ \A m \in Media : m[1] = t => Settled(m)'
  PROVE  t \in found' \/ \A i \in InGallery(t) : Settled(<<t, i>>)'
<1>1. t \in Tweet
  BY DEF TypeOK
<1>2. CASE \A m \in Media : m[1] = t => Settled(m)'
  <2> SUFFICES ASSUME NEW i \in InGallery(t) PROVE Settled(<<t, i>>)'
    OBVIOUS
  <2>1. PICK m \in Media : m = <<t, i>> /\ m[1] = t
    BY <1>1, MediaOfTweet
  <2> QED BY <1>2, <2>1
<1>3. CASE t \notin found
  <2> SUFFICES ASSUME NEW i \in InGallery(t) PROVE Settled(<<t, i>>)'
    OBVIOUS
  <2>1. PICK m \in Media : m = <<t, i>>
    BY <1>1, MediaOfTweet
  <2>2. Settled(m)
    BY <1>3, <2>1 DEF Above
  <2>3. Settled(m)'
    BY <2>2, SettledStays
  <2> QED BY <2>1, <2>3
<1> QED BY <1>2, <1>3

LEMMA ScanGoesOn ==
  ASSUME TypeOK, Placed, Handled, ScanOK, Scanning, [Next]_vars,
         UNCHANGED <<user, stop, below, shown>>,
         at # "page" \/ at' = "page" \/ \A t \in Older : t > stop => t \in missed',
         at' = "page" => at = "page" /\ (first' => first),
         \A t \in found : t \in found' \/ \A m \in Media : m[1] = t => Settled(m)'
  PROVE  ScanOK'
<1>1. ShownOK /\ NoHole /\ Above /\ Below /\ FirstOK
  BY DEF ScanOK
<1>2. Grows
  BY StepGrows
<1>3. Reached' \subseteq Reached
  BY ReachStays
<1>4. ShownOK'
  BY <1>1, <1>2 DEF ShownOK, Grows, TypeOK
<1>5. NoHole'
  BY <1>1, <1>3 DEF NoHole
<1>6. Above'
  <2> SUFFICES ASSUME NEW t \in shown', t > stop', Archivable(t)
               PROVE  t \in found' \/ \A i \in InGallery(t) : Settled(<<t, i>>)'
    BY DEF Above, Archivable, InGallery
  <2> QED BY <1>1, AboveStays
<1>7. Below'
  <2> SUFFICES ASSUME at' # "page", NEW t \in Reached', t > stop', t < below'
               PROVE  t \in shown' \cup missed'
    BY DEF Below
  <2>1. CASE at # "page"
    BY <1>1, <1>2, <1>3, <2>1 DEF Below, Grows
  <2>2. CASE \A s \in Older : s > stop => s \in missed'
    BY <1>1, <1>3, <2>2, ReachedIsVisible
  <2> QED BY <2>1, <2>2
<1>8. FirstOK'
  BY <1>1 DEF FirstOK
<1> QED BY <1>4, <1>5, <1>6, <1>7, <1>8 DEF ScanOK

LEMMA ScanStarts ==
  ASSUME TypeOK, NEW u \in User, TakeUser(u)
  PROVE  ScanOK'
<1>1. at' = "page" /\ shown' = {} /\ below' = Last + 1
  BY DEF TakeUser
<1>2. Reached' = {}
  BY <1>1 DEF Reached
<1> QED
  BY <1>1, <1>2 DEF ScanOK, ShownOK, NoHole, Above, Below, FirstOK

(* A page: all that is visible from its place on was shown or is, unless it*)
(* lies above all that was.                                                *)
LEMMA PageShows ==
  ASSUME TypeOK, Placed, ShownOK, NoHole, FirstOK, FetchPage
  PROVE  NoHole'
<1>1. /\ at = "page" /\ shown' = shown \cup Items /\ UNCHANGED <<user, deleted>>
      /\ below' = IF Page = {} THEN below ELSE Min(Page)
  BY DEF FetchPage, xVars
<1>2. SUFFICES ASSUME NEW t \in Reached', t >= below' PROVE t \in shown'
  BY DEF NoHole
<1>3. PICK s \in shown' : t <= s
  BY DEF Reached
<1>4. t \in Tweet \ deleted /\ Author[t] = user /\ t \in Nat
  BY <1>1, TweetsAreNumbers DEF Reached
<1>5. (s \in Visible(user) /\ s \in Nat) \/ t \in Reached
  BY <1>1, <1>3, <1>4, PagePlace, PageIsTop, VisibleTweets, TweetsAreNumbers DEF Items, Pinned, Reached
<1>6. t \in Visible(user)
  <2>1. CASE t \in Reached
    BY <2>1, ReachedIsVisible
  <2>2. CASE s \in Visible(user) /\ s \in Nat
    BY <1>3, <1>4, <2>2 DEF Visible, Tweet, TypeOK
  <2> QED BY <1>5, <2>1, <2>2
<1>7. CASE t < below
  <2>1. t \in Older
    BY <1>6, <1>7 DEF Older
  <2>2. Page # {} /\ Min(Page) \in Page /\ Min(Page) <= t /\ Min(Page) \in Nat
    BY <1>1, <1>2, <2>1, PageIsTop, PagePlace, TweetsAreNumbers
  <2>3. t \in Page
    BY <1>4, <2>1, <2>2, PageIsTop
  <2> QED BY <1>1, <2>3 DEF Items
<1>8. CASE t >= below
  <2>1. CASE t \in Reached
    BY <1>1, <1>8, <2>1 DEF NoHole
  <2>2. CASE s \in Page
    <3>1. s < below /\ s \in Nat
      BY <2>2, PageIsTop, PagePlace, TweetsAreNumbers DEF Older
    <3> QED BY <1>3, <1>4, <1>8, <3>1 DEF TypeOK
  <2>3. CASE s \in Pinned
    <3>1. below = Last + 1
      BY <1>1, <2>3 DEF FirstOK, Pinned
    <3> QED BY <1>4, <1>8, <3>1, TweetsAreNumbers
  <2> QED BY <1>1, <1>3, <1>4, <2>1, <2>2, <2>3 DEF Items, Reached
<1>9. below \in Nat
  BY TweetsAreNumbers DEF TypeOK
<1> QED BY <1>4, <1>7, <1>8, <1>9

LEMMA PageKeeps ==
  ASSUME TypeOK, Placed, Handled, Above, FetchPage, [Next]_vars
  PROVE  Above'
<1>1. /\ shown' = shown \cup Items /\ UNCHANGED stop
      /\ found' = found \cup {t \in Kept : Archivable(t)}
  BY DEF FetchPage
<1>2. SUFFICES ASSUME NEW t \in shown', t > stop', Archivable(t)
               PROVE  t \in found' \/ \A i \in InGallery(t) : Settled(<<t, i>>)'
  BY DEF Above, Archivable, InGallery
<1>3. CASE t \in shown
  BY <1>1, <1>2, <1>3, AboveStays
<1>4. CASE t \in Items \ shown
  BY <1>1, <1>2, <1>4 DEF Kept
<1> QED BY <1>1, <1>3, <1>4

LEMMA PageEnds ==
  ASSUME TypeOK, Placed, ShownOK, FirstOK, FetchPage, Stops
  PROVE  below' <= stop /\ stop \in Nat /\ below' \in Nat
<1>1. at = "page" /\ below' = IF Page = {} THEN below ELSE Min(Page)
  BY DEF FetchPage
<1>2. stop \in Nat /\ below \in Nat
  BY TweetsAreNumbers DEF TypeOK
<1>3. /\ Page \subseteq Nat
      /\ Page # {} => Min(Page) \in Nat /\ \A t \in Page : Min(Page) <= t
  BY PagePlace, TweetsAreNumbers
<1>4. CASE first /\ Page # {}
  BY <1>1, <1>2, <1>3, <1>4 DEF Stops
<1>5. CASE first /\ Page = {}
  <2>1. stop \in Visible(user) /\ below = Last + 1
    BY <1>1, <1>5 DEF Stops, Items, Pinned, FirstOK
  <2>2. stop \in Older
    BY <2>1, TweetsAreNumbers DEF Older, TypeOK
  <2> QED BY <1>5, <2>2, PageIsTop
<1>6. CASE ~first
  <2>1. PICK t \in Page : t <= stop
    BY <1>6 DEF Stops, Items, Pinned
  <2> QED BY <1>1, <1>2, <1>3, <2>1
<1> QED BY <1>4, <1>5, <1>6

LEMMA PageScanned ==
  ASSUME TypeOK, Placed, Handled, ScanOK, FetchPage, [Next]_vars
  PROVE  ScanOK'
<1>1. ShownOK /\ NoHole /\ Above /\ FirstOK
  BY DEF ScanOK, FetchPage, Scanning
<1>2. ShownOK'
  <2>1. Items \subseteq Visible(user)
    BY PageIsTop DEF Items, Pinned
  <2> QED BY <1>1, <2>1 DEF FetchPage, ShownOK, Visible, xVars
<1>3. Below'
  <2> SUFFICES ASSUME at' # "page", NEW t \in Reached', t > stop', t < below' PROVE FALSE
    BY DEF Below
  <2>1. Stops /\ stop' = stop
    BY DEF FetchPage
  <2>2. t \in Nat
    BY TweetsAreNumbers DEF Reached
  <2> QED BY <1>1, <2>1, <2>2, PageEnds
<1>4. FirstOK'
  BY DEF FirstOK, FetchPage
<1> QED BY <1>1, <1>2, <1>3, <1>4, PageShows, PageKeeps DEF ScanOK

LEMMA StepScan ==
  ASSUME TypeOK, Placed, Handled, ScanOK, [Next]_vars
  PROVE  ScanOK'
<1>1. CASE ~Scanning'
  BY <1>1 DEF ScanOK
<1>2. CASE \E u \in User : TakeUser(u)
  BY <1>2, ScanStarts
<1>3. CASE FetchPage
  BY <1>3, PageScanned
<1>4. CASE FetchEmptyPage \/ CutShort
  <2>1. /\ Scanning /\ at = "page"
        /\ at' = "page" \/ \A t \in Older : t > stop => t \in missed'
        /\ UNCHANGED <<user, stop, below, shown, found>>
        /\ first' => first
    BY <1>4 DEF FetchEmptyPage, CutShort, Scanning, fetchVars, workVars
  <2> QED BY <2>1, ScanGoesOn
<1>5. CASE TimelineEnds
  <2>1. Scanning /\ UNCHANGED <<fetchVars, found>> /\ at' = "fetched" /\ Items = {}
    BY <1>5 DEF TimelineEnds, Scanning, workVars
  <2>2. Older = {}
    BY <2>1, PageIsTop DEF Items
  <2> QED BY <2>1, <2>2, ScanGoesOn DEF fetchVars
<1>6. CASE SavesMedia
  <2>1. Scanning /\ UNCHANGED fetchVars /\ at = "save" /\ at' # "page"
    BY <1>6, NextMediaTypes DEF SavesMedia, SaveMedia, SkipMedia, RememberMedia, Scanning
  <2>2. \A t \in found : t \in found' \/ \A m \in Media : m[1] = t => Settled(m)'
    <3>1. CASE found' = found
      BY <3>1
    <3>2. CASE found' = found \ {turn} /\ next = Len(Gallery[turn])
      <4>1. \A m \in Media : m[1] = turn => m[2] <= next
        BY <3>2, MediaParts, GalleryLength DEF InGallery
      <4> QED BY <1>6, <3>2, <4>1, NextIsHandled
    <3> QED BY <1>6, <3>1, <3>2, NextIsHandled
  <2> QED BY <2>1, <2>2, ScanGoesOn DEF fetchVars
<1>7. CASE /\ Scanning /\ UNCHANGED <<user, stop, first, below, shown, found>>
           /\ at' = "page" <=> at = "page"
  BY <1>7, ScanGoesOn
<1> QED BY <1>1, <1>2, <1>3, <1>4, <1>5, <1>6, <1>7, ScanMoves

-----------------------------------------------------------------------------
(* The cursor.                                                             *)
LEMMA CursorMoves == [Next]_vars => UNCHANGED cursor \/ AdvanceCursor
<1> SUFFICES ASSUME [Next]_vars, ~AdvanceCursor PROVE UNCHANGED cursor
  OBVIOUS
<1>1. CASE Outsiders
  BY <1>1 DEF Outsiders, Post, Pin, DeleteTweet, Forget, PauseEnds, Remote
<1>2. CASE Life
  BY <1>2 DEF Life, Start, StartAgain, Upset, Fail, CompleteArchive, CompleteRetry, CompleteLink
<1>3. CASE Scan
  BY <1>3 DEF Scan, TakeUser, PassOver, FetchPage, FetchEmptyPage, TimelineEnds, CutShort,
              ResolveUser, ResolveList, ResolveFollowing, Enlist
<1>4. CASE ReadCursor \/ Claim \/ SaveMedia \/ SkipMedia \/ RememberMedia
  BY <1>4 DEF ReadCursor, Claim, SaveMedia, SkipMedia, RememberMedia
<1>5. CASE ListFailedTweets \/ (\E t \in Tweet : RetryTweet(t)) \/ RetryMedia
           \/ RetrySucceeds \/ RetryFails
  BY <1>5 DEF ListFailedTweets, RetryTweet, RetryMedia, RetrySucceeds, RetryFails, NextTweet
<1>6. CASE ParseTweetLink \/ LinkMedia \/ LinkFails \/ ProcessMediaURL
  BY <1>6 DEF ParseTweetLink, LinkMedia, LinkFails, ProcessMediaURL
<1>7. CASE UNCHANGED vars
  BY <1>7 DEF vars
<1> QED
  BY <1>1, <1>2, <1>3, <1>4, <1>5, <1>6, <1>7 DEF Outsiders, Life, Scan, Next, Work, StartRetry

LEMMA NewCursor ==
  ASSUME TypeOK, Placed, AdvanceCursor
  PROVE  /\ user \in User /\ stop <= cursor[user] /\ Scanning /\ at # "page" /\ found = {}
         /\ cursor' = [cursor EXCEPT ![user] = Seen] /\ Seen \in Nat /\ cursor[user] \in Nat
         /\ Seen \in shown \cup {cursor[user]} /\ cursor[user] <= Seen
<1>1. user \in User /\ stop \in {0, cursor[user]} /\ Scanning /\ at # "page" /\ found = {}
      /\ row = cursor[user]
      /\ cursor' = [cursor EXCEPT ![user] = Seen]
  BY DEF AdvanceCursor, Placed, Scanning
<1>2. cursor[user] \in 0..Last
  BY <1>1 DEF TypeOK
<1>3. shown \cup {cursor[user]} \in SUBSET (0..Last)
  BY <1>2, TweetsAreNumbers DEF TypeOK
<1>4. Seen \in shown \cup {cursor[user]} /\ cursor[user] <= Seen
  BY <1>1, <1>3, TweetsAreNumbers, MaxIsGreatest DEF Seen
<1> QED BY <1>1, <1>2, <1>3, <1>4

(* What the cursor passes was shown, and is settled, or is known to be     *)
(* missed.                                                                 *)
LEMMA StepGap ==
  ASSUME TypeOK, Placed, Handled, ScanOK, NoGap, [Next]_vars
  PROVE  NoGap'
<1>1. Grows
  BY StepGrows
<1>2. SUFFICES ASSUME NEW m \in Media, m[1] <= cursor'[Author[m[1]]],
                      m[1] \notin deleted' \cup missed' \cup Unreadable
               PROVE  Settled(m)'
  BY DEF NoGap
<1> DEFINE t == m[1]
<1>3. t \in Tweet /\ t \in Nat /\ m[2] \in InGallery(t) /\ m = <<t, m[2]>> /\ Author[t] \in User
  BY MediaParts, TweetsAreNumbers, DataAssumption
<1>4. t \notin deleted \cup missed \cup Unreadable
  BY <1>1, <1>2 DEF Grows
<1>5. CASE t <= cursor[Author[t]]
  BY <1>4, <1>5, SettledStays DEF NoGap
<1>6. CASE AdvanceCursor /\ ~(t <= cursor[Author[t]])
  <2>1. Author[t] = user /\ t <= Seen /\ Seen \in shown /\ cursor[user] < t
    BY <1>2, <1>3, <1>6, NewCursor DEF TypeOK
  <2>2. t \in Reached /\ t > stop
    BY <1>3, <1>4, <1>6, <2>1, NewCursor, TweetsAreNumbers DEF Reached, TypeOK
  <2>3. below \in Nat /\ NoHole /\ Above /\ Below
    BY <1>6, NewCursor, TweetsAreNumbers DEF TypeOK, ScanOK
  <2>4. t \in shown
    BY <1>3, <1>4, <1>6, <2>2, <2>3, NewCursor DEF NoHole, Below
  <2>5. Archivable(t)
    <3>1. Gallery[t] # <<>>
      BY <1>3, EmptySeq DEF InGallery
    <3> QED BY <1>4, <3>1 DEF Archivable
  <2>6. Settled(<<t, m[2]>>)
    BY <1>3, <1>6, <2>2, <2>3, <2>4, <2>5, NewCursor DEF Above
  <2>7. Settled(m)
    BY <1>3, <2>6
  <2> QED BY <2>7, SettledStays
<1> QED BY <1>2, <1>5, <1>6, CursorMoves
-----------------------------------------------------------------------------
LEMMA InitIInv == Init => IInv
<1> SUFFICES ASSUME Init PROVE IInv
  OBVIOUS
<1>1. TypeOK
  BY InitTypes
<1>2. NoGap
  <2> SUFFICES ASSUME NEW m \in Media PROVE ~(m[1] <= cursor[Author[m[1]]])
    BY DEF NoGap
  <2>1. m[1] \in Tweet
    BY MediaParts
  <2> QED BY <2>1, TweetsAreNumbers, DataAssumption DEF Init, Tweet
<1> QED
  BY <1>1, <1>2 DEF Init, IInv, Placed, Handled, Scanning, ScanOK, ClaimsOK, CleanVerdict

LEMMA StepIInv == IInv /\ [Next]_vars => IInv'
BY StepTypes, StepPlaced, StepHandled, StepGap, StepScan, ClaimsPreserved, StepVerdict DEF IInv

LEMMA InvariantHolds == Spec => []IInv
BY InitIInv, StepIInv, PTL DEF Spec

(* Every variable keeps its type: what the job has in its hands are tweets *)
(* and users it knows, and only rows of the queue pause.                   *)
THEOREM TypeCorrect == Spec => []TypeOK
<1>1. IInv => TypeOK
  BY DEF IInv
<1> QED BY <1>1, InvariantHolds, PTL

(* The cursor of a user never passes a media that is neither settled nor in*)
(* the queue, whatever X answers and wherever the job is interrupted.      *)
THEOREM GapCorrect == Spec => []NoGap
<1>1. IInv => NoGap
  BY DEF IInv
<1> QED BY <1>1, InvariantHolds, PTL

(* A job called completed leaves nothing it has tried undone, in this      *)
(* attempt and in those that were interrupted.                             *)
THEOREM VerdictCorrect == Spec => []CleanVerdict
<1>1. IInv => CleanVerdict
  BY DEF IInv
<1> QED BY <1>1, InvariantHolds, PTL

(* The cursor of a user never moves back: the newest tweet of a scan may be*)
(* older than the one the cursor is at, when that one was deleted.         *)
THEOREM CursorCorrect == Spec => CursorNeverBack
<1>1. IInv /\ [Next]_vars => [\A u \in User : cursor'[u] >= cursor[u]]_cursor
  <2> SUFFICES ASSUME IInv, AdvanceCursor, NEW u \in User PROVE cursor'[u] >= cursor[u]
    BY CursorMoves
  <2>1. TypeOK /\ Placed /\ cursor[u] \in Nat
    BY TweetsAreNumbers DEF IInv, TypeOK
  <2> QED BY <2>1, NewCursor DEF TypeOK
<1> QED BY <1>1, InvariantHolds, PTL DEF Spec, CursorNeverBack
=============================================================================
