------------------------- MODULE MediaArchiveProofs -------------------------
(***************************************************************************)
(* Theorems about MediaArchive for any number of goroutines, items, names, *)
(* media and contents, with and without hard links.                        *)
(***************************************************************************)
EXTENDS MediaArchive, TLAPS

(* Past the look at its own row, and in possession of a published file.    *)
PastOwn == Locked \ {"lookup", "own"}
Mine == {"reserved", "hashlock", "dupes", "statHash", "remove"}

(* A call that found its own file in the way has a row.                    *)
OwnRow == \A w \in Worker : at[w] = "stale" \/ replace[w] => record[item[w]] # NoRow

(* The locks exclude each other's calls.                                   *)
MediaExclusive ==
  \A v, w \in Worker : at[v] \in Locked /\ HasMedia(w, MediaOf(item[v])) => v = w
ContentExclusive ==
  \A v, w \in Worker : at[v] \in ContentLocked /\ HasContent(w, hash[v]) => v = w

(* What the call knows of its own item stays true.                         *)
NotLost == \A w \in Worker : at[w] \in Locked \ {"lookup"} => UrlOf[item[w]] \notin unavailable
OwnCopy == \A w \in Worker : at[w] = "own" => copies[w] = {record[item[w]]} \ {NoRow}

(* A file on disk is in flight or has a row that no call is about to       *)
(* overwrite.                                                              *)
Kept ==
  crashes = 0 /\ faults = 0 =>
    \A p \in Path : Exists(p) =>
      \/ \E w \in Worker : InFlight(w) /\ path[w] = p
      \/ \E i \in Recorded : /\ record[i].path = p
                             /\ \A w \in Worker : item[w] = i => at[w] \notin PastOwn

(* As long as no file is deleted: rows are never overwritten, ...          *)
Rows == {record[i] : i \in Recorded}
Unrecorded == \A w \in Worker : at[w] \in PastOwn => record[item[w]] = NoRow
NoReplace == \A w \in Worker : ~replace[w] /\ at[w] \notin {"stale", "discard"}

(* ... the rows a call has found stay rows, ...                            *)
CopiesAreRows ==
  \A w \in Worker :
    /\ at[w] = "statKey" => copies[w] \subseteq Rows
    /\ at[w] = "reuse" => [path |-> path[w], hash |-> hash[w]] \in Rows

(* ... a published file is there, is nobody else's and in no row, ...      *)
MineIsMine ==
  \A w \in Worker :
    /\ at[w] = "reserved" => disk[path[w]] = Placeholder
    /\ at[w] \in {"hashlock", "dupes", "statHash", "remove", "keep"} => disk[path[w]] = hash[w]
    /\ at[w] \in Mine =>
         /\ \A r \in Rows : r.path # path[w]
         /\ \A v \in Worker \ {w} : InFlight(v) => path[v] # path[w]

(* ... and with the content lock a call knows all rows of its content.     *)
OthersOf(w) == {r \in Rows : r.hash = hash[w] /\ r.path # path[w]}
KnowsContent ==
  \A w \in Worker :
    /\ at[w] = "statHash" => copies[w] = OthersOf(w)
    /\ at[w] = "remove" => copies[w] # {} /\ copies[w] \subseteq OthersOf(w)
    /\ at[w] = "keep" => OthersOf(w) = {}

Undeleted ==
  deletes = 0 =>
    /\ RecordTrue /\ OneCopy
    /\ Unrecorded /\ NoReplace /\ CopiesAreRows /\ MineIsMine /\ KnowsContent

IInv ==
  /\ TypeOK /\ OwnRow
  /\ MediaExclusive /\ ContentExclusive
  /\ NotLost /\ OwnCopy
  /\ Kept
  /\ Undeleted
-----------------------------------------------------------------------------
(* The lemmas below take the actions one by one; these name what an action *)
(* does to the calls.                                                      *)
LEMMA Constants ==
  /\ \A i \in Item : Base(i) \in Path /\ BytesOf(i) \in Content /\ UrlOf[i] \in Url
  /\ NoRow \notin Row /\ 0 \in 0..MaxSuffix
BY DataAssumption, NumberAssumption, NoneAssumption DEF Base, BytesOf, NoRow, Row, Path

LEMMA InitType == Init => TypeOK /\ OwnRow
BY Constants, NumberAssumption DEF Init, TypeOK, OwnRow

(* Types, and the row of a call that removes its own stale file.           *)
LEMMA TypeKept ==
  ASSUME TypeOK, OwnRow, [Next]_vars
  PROVE  TypeOK' /\ OwnRow'
<1> USE Constants, NumberAssumption
<1> USE DEF TypeOK, OwnRow
<1>1. ASSUME NEW w \in Worker, NEW i \in Item, Call(w, i) PROVE TypeOK' /\ OwnRow'
  BY <1>1 DEF Call, Goto, With, sysVars, bookVars, ContentLocked, Locked
<1>2. ASSUME NEW w \in Worker,
              LockMedia(w) \/ CancelWait(w) \/ LockContent(w)
      PROVE  TypeOK' /\ OwnRow'
  BY <1>2
     DEF LockMedia, CancelWait, LockContent, Goto, sysVars, bookVars,
         ContentLocked, Locked
<1>3. ASSUME NEW w \in Worker,
              LookUp(w) \/ StatOwn(w) \/ FindByKey(w) \/ StatByKey(w)
      PROVE  TypeOK' /\ OwnRow'
  BY <1>3
     DEF LookUp, StatOwn, FindByKey, StatByKey, With, Goto, sysVars, bookVars,
         ContentLocked, Locked, Row
<1>4. ASSUME NEW w \in Worker,
              Fetch(w) \/ FetchFails(w) \/ FetchGone(w) \/ MarkUnavailable(w)
      PROVE  TypeOK' /\ OwnRow'
  BY <1>4
     DEF Fetch, FetchFails, FetchGone, MarkUnavailable, Goto, sysVars,
         bookVars, ContentLocked, Locked
<1>5. ASSUME NEW w \in Worker, CheckOwner(w) PROVE TypeOK' /\ OwnRow'
  <2>1. PICK owner \in BOOLEAN :
          /\ owner => Owns(item[w])
          /\ faults' = (IF owner = Owns(item[w]) THEN faults ELSE faults + 1)
          /\ owner # Owns(item[w]) => faults < MaxFaults
          /\ IF at[w] = "complete" /\ owner
             THEN Goto(w, "reuse") /\ hash' = [hash EXCEPT ![w] = record[item[w]].hash]
             ELSE Goto(w, "publish") /\ UNCHANGED hash
          /\ replace' = [replace EXCEPT ![w] = at[w] = "partial" /\ owner]
    BY <1>5 DEF CheckOwner, Owns
  <2>2. faults' \in 0..MaxFaults /\ replace' \in [Worker -> BOOLEAN]
    BY <2>1 DEF TypeOK
  <2>3. owner => record[item[w]] \in Row
    BY <2>1 DEF Owns, TypeOK
  <2>4. hash' \in [Worker -> Content] /\ at' \in [Worker -> Locked \cup {"idle", "lock"}]
    BY <2>1, <2>3 DEF TypeOK, Goto, Locked, Row
  <2> QED
    BY <1>5, <2>1, <2>2, <2>3, <2>4
       DEF CheckOwner, TypeOK, OwnRow, Goto, sysVars
<1>6. ASSUME NEW w \in Worker,
              Publish(w) \/ RenameOver(w) \/ RenameFails(w)
      PROVE  TypeOK' /\ OwnRow'
  BY <1>6
     DEF Publish, RenameOver, RenameFails, Goto, sysVars, bookVars,
         ContentLocked, Locked
<1>7. ASSUME NEW w \in Worker, NextName(w) PROVE TypeOK' /\ OwnRow'
  <2>1. path[w] \in Path /\ (path[w][2] < MaxSuffix => <<path[w][1], path[w][2] + 1>> \in Path)
    BY DEF TypeOK, Path
  <2> QED
    BY <1>7, <2>1
       DEF NextName, NextNumber, TypeOK, OwnRow, Goto, sysVars, bookVars,
           ContentLocked, Locked
<1>8. ASSUME NEW w \in Worker,
              TargetTaken(w) \/ RemoveStale(w)
      PROVE  TypeOK' /\ OwnRow'
  BY <1>8
     DEF TargetTaken, RemoveStale, Goto, sysVars, bookVars, ContentLocked,
         Locked
<1>9. ASSUME NEW w \in Worker, StatStale(w) PROVE TypeOK' /\ OwnRow'
  <2>1. path[w] \in Path /\ (path[w][2] < MaxSuffix => <<path[w][1], path[w][2] + 1>> \in Path)
    BY DEF TypeOK, Path
  <2>2. record[item[w]].hash \in Content
    BY <1>9 DEF StatStale, OwnRow, TypeOK, Row
  <2> QED
    BY <1>9, <2>1, <2>2
       DEF StatStale, NextNumber, TypeOK, OwnRow, Goto, sysVars, bookVars,
           ContentLocked, Locked
<1>10. ASSUME NEW w \in Worker,
              StatByContent(w) \/ RemoveDuplicate(w) \/ StatementFails(w)
      PROVE  TypeOK' /\ OwnRow'
  BY <1>10
     DEF StatByContent, RemoveDuplicate, StatementFails, Goto, sysVars,
         bookVars, ContentLocked, Locked, Row
<1>11. ASSUME NEW w \in Worker, FindByContent(w) PROVE TypeOK' /\ OwnRow'
  <2>1. {r \in {record[i] : i \in Item} : r.hash = hash[w] /\ r.path # path[w]} \subseteq Row
    BY NoneAssumption DEF TypeOK, NoRow
  <2> QED
    BY <1>11, <2>1
       DEF FindByContent, TypeOK, OwnRow, Goto, sysVars, bookVars,
           ContentLocked, Locked
<1>12. ASSUME NEW w \in Worker, CreateDownload(w) PROVE TypeOK' /\ OwnRow'
  <2>1. [path |-> path[w], hash |-> hash[w]] \in Row
    BY DEF TypeOK, Row
  <2> QED
    BY <1>12, <2>1
       DEF CreateDownload, TypeOK, OwnRow, Goto, sysVars, bookVars,
           ContentLocked, Locked
<1>13. ASSUME NEW p \in Path, UserDeletes(p) PROVE TypeOK' /\ OwnRow'
  BY <1>13 DEF UserDeletes, callVars
<1>14. CASE PruneUnavailable
  BY <1>14 DEF PruneUnavailable, callVars, bookVars
<1>15. CASE Crash
  BY <1>15 DEF Crash, sysVars, Locked
<1>16. CASE UNCHANGED vars
  BY <1>16 DEF vars
<1> QED
  BY <1>1, <1>2, <1>3, <1>4, <1>5, <1>6, <1>7, <1>8, <1>9, <1>10, <1>11,
     <1>12, <1>13, <1>14, <1>15, <1>16 DEF Next, Step

(* The guards of the two locks keep calls apart.                           *)
LEMMA LocksKept ==
  ASSUME TypeOK, MediaExclusive, ContentExclusive, [Next]_vars
  PROVE  MediaExclusive' /\ ContentExclusive'
<1> USE DEF MediaExclusive, ContentExclusive, HasMedia, HasContent, TypeOK,
           Goto, sysVars, callVars, bookVars, ContentLocked, Locked
<1>1. ASSUME NEW w \in Worker, NEW i \in Item, Call(w, i) PROVE MediaExclusive' /\ ContentExclusive'
  BY <1>1 DEF Call, With
<1>2. ASSUME NEW w \in Worker,
              LockMedia(w) \/ CancelWait(w) \/ LockContent(w)
      PROVE  MediaExclusive' /\ ContentExclusive'
  BY <1>2 DEF LockMedia, CancelWait, LockContent
<1>3. ASSUME NEW w \in Worker,
              LookUp(w) \/ StatOwn(w) \/ FindByKey(w) \/ StatByKey(w)
      PROVE  MediaExclusive' /\ ContentExclusive'
  BY <1>3 DEF LookUp, StatOwn, FindByKey, StatByKey, With
<1>4. ASSUME NEW w \in Worker,
              Fetch(w) \/ FetchFails(w) \/ FetchGone(w) \/ MarkUnavailable(w)
      PROVE  MediaExclusive' /\ ContentExclusive'
  BY <1>4 DEF Fetch, FetchFails, FetchGone, MarkUnavailable
<1>5. ASSUME NEW w \in Worker, CheckOwner(w) PROVE MediaExclusive' /\ ContentExclusive'
  BY <1>5 DEF CheckOwner
<1>6. ASSUME NEW w \in Worker,
              Publish(w) \/ RenameOver(w) \/ RenameFails(w) \/ NextName(w)
      PROVE  MediaExclusive' /\ ContentExclusive'
  BY <1>6 DEF Publish, RenameOver, RenameFails, NextName, NextNumber
<1>7. ASSUME NEW w \in Worker,
              TargetTaken(w) \/ StatStale(w) \/ RemoveStale(w)
      PROVE  MediaExclusive' /\ ContentExclusive'
  BY <1>7 DEF TargetTaken, StatStale, NextNumber, RemoveStale
<1>8. ASSUME NEW w \in Worker,
              FindByContent(w) \/ StatByContent(w) \/ RemoveDuplicate(w)
              \/ CreateDownload(w) \/ StatementFails(w)
      PROVE  MediaExclusive' /\ ContentExclusive'
  BY <1>8
     DEF FindByContent, StatByContent, RemoveDuplicate, CreateDownload,
         StatementFails
<1>9. ASSUME NEW p \in Path, UserDeletes(p) PROVE MediaExclusive' /\ ContentExclusive'
  BY <1>9 DEF UserDeletes
<1>10. CASE PruneUnavailable
  BY <1>10 DEF PruneUnavailable
<1>11. CASE Crash
  BY <1>11 DEF Crash
<1>12. CASE UNCHANGED vars
  BY <1>12 DEF vars
<1> QED
  BY <1>1, <1>2, <1>3, <1>4, <1>5, <1>6, <1>7, <1>8, <1>9, <1>10, <1>11,
     <1>12 DEF Next, Step

(* What a call knows of its item stays true, for calls of the same media   *)
(* are excluded.                                                           *)
LEMMA OwnKept ==
  ASSUME TypeOK, MediaExclusive, NotLost, OwnCopy, [Next]_vars
  PROVE  NotLost' /\ OwnCopy'
<1> USE DEF MediaExclusive, HasMedia, MediaOf, NotLost, OwnCopy, TypeOK, Goto,
           sysVars, callVars, bookVars, ContentLocked, Locked
<1>1. ASSUME NEW w \in Worker, NEW i \in Item, Call(w, i) PROVE NotLost' /\ OwnCopy'
  BY <1>1 DEF Call, With
<1>2. ASSUME NEW w \in Worker,
              LockMedia(w) \/ CancelWait(w) \/ LockContent(w)
      PROVE  NotLost' /\ OwnCopy'
  BY <1>2 DEF LockMedia, CancelWait, LockContent
<1>3. ASSUME NEW w \in Worker,
              LookUp(w) \/ StatOwn(w) \/ FindByKey(w) \/ StatByKey(w)
      PROVE  NotLost' /\ OwnCopy'
  BY <1>3 DEF LookUp, StatOwn, FindByKey, StatByKey, With
<1>4. ASSUME NEW w \in Worker,
              Fetch(w) \/ FetchFails(w) \/ FetchGone(w) \/ MarkUnavailable(w)
      PROVE  NotLost' /\ OwnCopy'
  BY <1>4 DEF Fetch, FetchFails, FetchGone, MarkUnavailable
<1>5. ASSUME NEW w \in Worker, CheckOwner(w) PROVE NotLost' /\ OwnCopy'
  BY <1>5 DEF CheckOwner
<1>6. ASSUME NEW w \in Worker,
              Publish(w) \/ RenameOver(w) \/ RenameFails(w) \/ NextName(w)
      PROVE  NotLost' /\ OwnCopy'
  BY <1>6 DEF Publish, RenameOver, RenameFails, NextName, NextNumber
<1>7. ASSUME NEW w \in Worker,
              TargetTaken(w) \/ StatStale(w) \/ RemoveStale(w)
      PROVE  NotLost' /\ OwnCopy'
  BY <1>7 DEF TargetTaken, StatStale, NextNumber, RemoveStale
<1>8. ASSUME NEW w \in Worker,
              FindByContent(w) \/ StatByContent(w) \/ RemoveDuplicate(w)
              \/ CreateDownload(w) \/ StatementFails(w)
      PROVE  NotLost' /\ OwnCopy'
  BY <1>8
     DEF FindByContent, StatByContent, RemoveDuplicate, CreateDownload,
         StatementFails
<1>9. ASSUME NEW p \in Path, UserDeletes(p) PROVE NotLost' /\ OwnCopy'
  BY <1>9 DEF UserDeletes
<1>10. CASE PruneUnavailable
  BY <1>10 DEF PruneUnavailable
<1>11. CASE Crash
  BY <1>11 DEF Crash
<1>12. CASE UNCHANGED vars
  BY <1>12 DEF vars
<1> QED
  BY <1>1, <1>2, <1>3, <1>4, <1>5, <1>6, <1>7, <1>8, <1>9, <1>10, <1>11,
     <1>12 DEF Next, Step

(* No step forgets a file.                                                 *)
LEMMA KeptKept ==
  ASSUME TypeOK, MediaExclusive, OwnCopy, Kept, [Next]_vars
  PROVE  Kept'
<1> USE NumberAssumption
<1> USE DEF MediaExclusive, HasMedia, OwnCopy, Kept, Exists, InFlight,
           Recorded, PastOwn, TypeOK, Goto, sysVars, callVars, bookVars,
           ContentLocked, Locked
<1>1. ASSUME NEW w \in Worker, NEW i \in Item, Call(w, i) PROVE Kept'
  BY <1>1 DEF Call, With
<1>2. ASSUME NEW w \in Worker,
              LockMedia(w) \/ CancelWait(w) \/ LockContent(w)
      PROVE  Kept'
  <2>1. CASE LockMedia(w)
    BY <2>1 DEF LockMedia
  <2>2. CASE CancelWait(w)
    BY <2>2 DEF CancelWait
  <2>3. CASE LockContent(w)
    BY <2>3 DEF LockContent
  <2> QED
    BY <1>2, <2>1, <2>2, <2>3
<1>3. ASSUME NEW w \in Worker,
              LookUp(w) \/ StatOwn(w) \/ FindByKey(w) \/ StatByKey(w)
      PROVE  Kept'
  <2>1. CASE LookUp(w)
    BY <2>1 DEF LookUp, With
  <2>2. CASE StatOwn(w)
    BY <2>2 DEF StatOwn, With
  <2>3. CASE FindByKey(w)
    BY <2>3 DEF FindByKey, With
  <2>4. CASE StatByKey(w)
    BY <2>4 DEF StatByKey, With
  <2> QED
    BY <1>3, <2>1, <2>2, <2>3, <2>4
<1>4. ASSUME NEW w \in Worker,
              Fetch(w) \/ FetchFails(w) \/ FetchGone(w) \/ MarkUnavailable(w)
      PROVE  Kept'
  <2>1. CASE Fetch(w)
    BY <2>1 DEF Fetch
  <2>2. CASE FetchFails(w)
    BY <2>2 DEF FetchFails
  <2>3. CASE FetchGone(w)
    BY <2>3 DEF FetchGone
  <2>4. CASE MarkUnavailable(w)
    BY <2>4 DEF MarkUnavailable
  <2> QED
    BY <1>4, <2>1, <2>2, <2>3, <2>4
<1>5. ASSUME NEW w \in Worker, CheckOwner(w) PROVE Kept'
  BY <1>5 DEF CheckOwner
<1>6. ASSUME NEW w \in Worker,
              Publish(w) \/ RenameOver(w) \/ RenameFails(w) \/ NextName(w)
      PROVE  Kept'
  <2>1. CASE Publish(w)
    BY <2>1 DEF Publish
  <2>2. CASE RenameOver(w)
    BY <2>2 DEF RenameOver
  <2>3. CASE RenameFails(w)
    BY <2>3 DEF RenameFails
  <2>4. CASE NextName(w)
    BY <2>4 DEF NextName, NextNumber
  <2> QED
    BY <1>6, <2>1, <2>2, <2>3, <2>4
<1>7. ASSUME NEW w \in Worker,
              TargetTaken(w) \/ StatStale(w) \/ RemoveStale(w)
      PROVE  Kept'
  <2>1. CASE TargetTaken(w)
    BY <2>1 DEF TargetTaken
  <2>2. CASE StatStale(w)
    BY <2>2 DEF StatStale, NextNumber
  <2>3. CASE RemoveStale(w)
    BY <2>3 DEF RemoveStale
  <2> QED
    BY <1>7, <2>1, <2>2, <2>3
<1>8. ASSUME NEW w \in Worker,
              FindByContent(w) \/ StatByContent(w) \/ RemoveDuplicate(w)
              \/ StatementFails(w)
      PROVE  Kept'
  <2>1. CASE FindByContent(w)
    BY <2>1 DEF FindByContent
  <2>2. CASE StatByContent(w)
    BY <2>2 DEF StatByContent
  <2>3. CASE RemoveDuplicate(w)
    BY <2>3 DEF RemoveDuplicate
  <2>4. CASE StatementFails(w)
    BY <2>4 DEF StatementFails
  <2> QED
    BY <1>8, <2>1, <2>2, <2>3, <2>4
<1>9. ASSUME NEW w \in Worker, CreateDownload(w) PROVE Kept'
  <2> SUFFICES ASSUME crashes = 0, faults = 0, NEW p \in Path, Exists(p)
               PROVE  (\/ \E v \in Worker : InFlight(v) /\ path[v] = p
                       \/ \E i \in Recorded :
                            /\ record[i].path = p
                            /\ \A v \in Worker : item[v] = i => at[v] \notin PastOwn)'
    BY <1>9 DEF CreateDownload, Kept, Exists, bookVars
  <2>1. /\ at[w] \in PastOwn /\ at' = [at EXCEPT ![w] = "idle"]
        /\ record' = [record EXCEPT ![item[w]] = [path |-> path[w], hash |-> hash[w]]]
        /\ UNCHANGED <<item, path>>
    BY <1>9 DEF CreateDownload, Goto, PastOwn, Locked, ContentLocked
  <2>2. CASE \E v \in Worker \ {w} : InFlight(v) /\ path[v] = p
    BY <2>1, <2>2 DEF InFlight, TypeOK
  <2>3. CASE InFlight(w) /\ path[w] = p
    <3>1. record'[item[w]].path = p /\ record'[item[w]] # NoRow
      BY <2>1, <2>3, Constants DEF TypeOK, Row
    <3>2. \A v \in Worker : item'[v] = item[w] => at'[v] \notin PastOwn
      BY <2>1
         DEF MediaExclusive, HasMedia, TypeOK, PastOwn, Locked, ContentLocked
    <3> QED
      BY <3>1, <3>2 DEF Recorded, TypeOK
  <2>4. ASSUME NEW i \in Recorded, record[i].path = p,
               \A v \in Worker : item[v] = i => at[v] \notin PastOwn
        PROVE  /\ i \in Recorded' /\ record'[i].path = p
               /\ \A v \in Worker : item'[v] = i => at'[v] \notin PastOwn
    BY <2>1, <2>4 DEF Recorded, TypeOK, PastOwn, Locked, ContentLocked
  <2> QED
    BY <2>2, <2>3, <2>4 DEF Kept
<1>10. ASSUME NEW p \in Path, UserDeletes(p) PROVE Kept'
  BY <1>10 DEF UserDeletes
<1>11. CASE PruneUnavailable
  BY <1>11 DEF PruneUnavailable
<1>12. CASE Crash
  BY <1>12 DEF Crash
<1>13. CASE UNCHANGED vars
  BY <1>13 DEF vars
<1> QED
  BY <1>1, <1>2, <1>3, <1>4, <1>5, <1>6, <1>7, <1>8, <1>9, <1>10, <1>11,
     <1>12, <1>13 DEF Next, Step

LEMMA RowIsPair == \A r \in Row : r = [path |-> r.path, hash |-> r.hash]
BY DEF Row

(* Rows are only added.                                                    *)
LEMMA RowsAfter ==
  ASSUME TypeOK, Unrecorded, NEW w \in Worker, CreateDownload(w)
  PROVE  /\ Rows' = Rows \cup {[path |-> path[w], hash |-> hash[w]]}
         /\ Recorded' = Recorded \cup {item[w]}
<1>1. /\ record[item[w]] = NoRow
      /\ record' = [record EXCEPT ![item[w]] = [path |-> path[w], hash |-> hash[w]]]
  BY DEF CreateDownload, Unrecorded, PastOwn, Locked, ContentLocked
<1>2. [path |-> path[w], hash |-> hash[w]] # NoRow
  BY Constants DEF TypeOK, Row
<1>3. Recorded' = Recorded \cup {item[w]}
  BY <1>1, <1>2 DEF Recorded, TypeOK
<1> QED
  BY <1>1, <1>3 DEF Rows, Recorded, TypeOK

(* Past the look at its row a call's item has none.                        *)
LEMMA UnrecordedKept ==
  ASSUME TypeOK, MediaExclusive, ContentExclusive, OwnCopy, Undeleted, deletes' = 0, [Next]_vars
  PROVE  Unrecorded'
<1> USE DEF Unrecorded, RecordTrue, Recorded, OwnCopy, MediaExclusive,
           HasMedia, PastOwn, Exists, Undeleted, TypeOK, Goto, sysVars,
           callVars, bookVars, ContentLocked, Locked
<1>1. ASSUME NEW w \in Worker, NEW i \in Item, Call(w, i) PROVE Unrecorded'
  BY <1>1 DEF Call, With
<1>2. ASSUME NEW w \in Worker,
              LockMedia(w) \/ CancelWait(w) \/ LockContent(w)
      PROVE  Unrecorded'
  BY <1>2 DEF LockMedia, CancelWait, LockContent
<1>3. ASSUME NEW w \in Worker,
              LookUp(w) \/ FindByKey(w) \/ StatByKey(w)
      PROVE  Unrecorded'
  BY <1>3 DEF LookUp, FindByKey, StatByKey, With
<1>4. ASSUME NEW w \in Worker, StatOwn(w) PROVE Unrecorded'
  <2>1. CASE \E r \in copies[w] : Exists(r.path)
    BY <1>4, <2>1
       DEF StatOwn, Goto, Undeleted, Unrecorded, PastOwn, sysVars, bookVars,
           TypeOK, Locked, ContentLocked
  <2>2. CASE ~ \E r \in copies[w] : Exists(r.path)
    <3>1. record[item[w]] = NoRow
      <4> SUFFICES ASSUME record[item[w]] # NoRow PROVE FALSE
        OBVIOUS
      <4>1. record[item[w]] \in copies[w]
        BY <1>4 DEF StatOwn, OwnCopy
      <4>2. disk[record[item[w]].path] \in Content
        BY <1>4
           DEF StatOwn, bookVars, Undeleted, RecordTrue, Recorded, TypeOK, Row
      <4> QED
        BY <2>2, <4>1, <4>2, NoneAssumption DEF Exists
    <3> QED
      BY <1>4, <3>1
         DEF StatOwn, Goto, Undeleted, Unrecorded, PastOwn, sysVars, bookVars,
             TypeOK, Locked, ContentLocked
  <2> QED
    BY <2>1, <2>2
<1>5. ASSUME NEW w \in Worker,
              Fetch(w) \/ FetchFails(w) \/ FetchGone(w) \/ MarkUnavailable(w)
      PROVE  Unrecorded'
  BY <1>5 DEF Fetch, FetchFails, FetchGone, MarkUnavailable
<1>6. ASSUME NEW w \in Worker, CheckOwner(w) PROVE Unrecorded'
  BY <1>6 DEF CheckOwner
<1>7. ASSUME NEW w \in Worker,
              Publish(w) \/ RenameOver(w) \/ RenameFails(w) \/ NextName(w)
      PROVE  Unrecorded'
  BY <1>7 DEF Publish, RenameOver, RenameFails, NextName, NextNumber
<1>8. ASSUME NEW w \in Worker,
              TargetTaken(w) \/ StatStale(w) \/ RemoveStale(w)
      PROVE  Unrecorded'
  BY <1>8 DEF TargetTaken, StatStale, NextNumber, RemoveStale
<1>9. ASSUME NEW w \in Worker,
              FindByContent(w) \/ StatByContent(w) \/ RemoveDuplicate(w)
              \/ CreateDownload(w) \/ StatementFails(w)
      PROVE  Unrecorded'
  BY <1>9
     DEF FindByContent, StatByContent, RemoveDuplicate, CreateDownload,
         StatementFails
<1>10. ASSUME NEW p \in Path, UserDeletes(p) PROVE Unrecorded'
  BY <1>10 DEF UserDeletes
<1>11. CASE PruneUnavailable
  BY <1>11 DEF PruneUnavailable
<1>12. CASE Crash
  BY <1>12 DEF Crash
<1>13. CASE UNCHANGED vars
  BY <1>13 DEF vars
<1> QED
  BY <1>1, <1>2, <1>3, <1>4, <1>5, <1>6, <1>7, <1>8, <1>9, <1>10, <1>11,
     <1>12, <1>13 DEF Next, Step

(* A call without a row owns no file in its way and replaces none.         *)
LEMMA NoReplaceKept ==
  ASSUME TypeOK, MediaExclusive, ContentExclusive, OwnCopy, Undeleted, deletes' = 0, [Next]_vars
  PROVE  NoReplace'
<1> USE DEF Unrecorded, NoReplace, PastOwn, Owns, Undeleted, TypeOK, Goto,
           sysVars, callVars, bookVars, ContentLocked, Locked
<1>1. ASSUME NEW w \in Worker, NEW i \in Item, Call(w, i) PROVE NoReplace'
  BY <1>1 DEF Call, With
<1>2. ASSUME NEW w \in Worker,
              LockMedia(w) \/ CancelWait(w) \/ LockContent(w)
      PROVE  NoReplace'
  BY <1>2 DEF LockMedia, CancelWait, LockContent
<1>3. ASSUME NEW w \in Worker,
              LookUp(w) \/ StatOwn(w) \/ FindByKey(w) \/ StatByKey(w)
      PROVE  NoReplace'
  BY <1>3 DEF LookUp, StatOwn, FindByKey, StatByKey, With
<1>4. ASSUME NEW w \in Worker,
              Fetch(w) \/ FetchFails(w) \/ FetchGone(w) \/ MarkUnavailable(w)
      PROVE  NoReplace'
  BY <1>4 DEF Fetch, FetchFails, FetchGone, MarkUnavailable
<1>5. ASSUME NEW w \in Worker, CheckOwner(w) PROVE NoReplace'
  BY <1>5 DEF CheckOwner
<1>6. ASSUME NEW w \in Worker,
              Publish(w) \/ RenameOver(w) \/ RenameFails(w) \/ NextName(w)
      PROVE  NoReplace'
  BY <1>6 DEF Publish, RenameOver, RenameFails, NextName, NextNumber
<1>7. ASSUME NEW w \in Worker,
              TargetTaken(w) \/ StatStale(w) \/ RemoveStale(w)
      PROVE  NoReplace'
  BY <1>7 DEF TargetTaken, StatStale, NextNumber, RemoveStale
<1>8. ASSUME NEW w \in Worker,
              FindByContent(w) \/ StatByContent(w) \/ RemoveDuplicate(w)
              \/ CreateDownload(w) \/ StatementFails(w)
      PROVE  NoReplace'
  BY <1>8
     DEF FindByContent, StatByContent, RemoveDuplicate, CreateDownload,
         StatementFails
<1>9. ASSUME NEW p \in Path, UserDeletes(p) PROVE NoReplace'
  BY <1>9 DEF UserDeletes
<1>10. CASE PruneUnavailable
  BY <1>10 DEF PruneUnavailable
<1>11. CASE Crash
  BY <1>11 DEF Crash
<1>12. CASE UNCHANGED vars
  BY <1>12 DEF vars
<1> QED
  BY <1>1, <1>2, <1>3, <1>4, <1>5, <1>6, <1>7, <1>8, <1>9, <1>10, <1>11,
     <1>12 DEF Next, Step

(* The rows a call has found are still rows when it uses them.             *)
LEMMA CopiesKept ==
  ASSUME TypeOK, MediaExclusive, ContentExclusive, OwnCopy, Undeleted, deletes' = 0, [Next]_vars
  PROVE  CopiesAreRows'
<1> USE DEF Unrecorded, NoReplace, CopiesAreRows, Rows, Recorded, PastOwn,
           Owns, Row, Undeleted, TypeOK, Goto, sysVars, callVars, bookVars,
           ContentLocked, Locked
<1>1. ASSUME NEW w \in Worker, NEW i \in Item, Call(w, i) PROVE CopiesAreRows'
  BY <1>1 DEF Call, With
<1>2. ASSUME NEW w \in Worker,
              LockMedia(w) \/ CancelWait(w) \/ LockContent(w)
      PROVE  CopiesAreRows'
  BY <1>2 DEF LockMedia, CancelWait, LockContent
<1>3. ASSUME NEW w \in Worker,
              LookUp(w) \/ StatOwn(w) \/ FindByKey(w)
      PROVE  CopiesAreRows'
  BY <1>3 DEF LookUp, StatOwn, FindByKey
<1>4. ASSUME NEW w \in Worker, StatByKey(w) PROVE CopiesAreRows'
  <2>1. \A r \in copies[w] : r \in Rows /\ r = [path |-> r.path, hash |-> r.hash]
    BY <1>4, RowIsPair
       DEF StatByKey, bookVars, Undeleted, CopiesAreRows, TypeOK
  <2>2. Rows' = Rows
    BY <1>4 DEF StatByKey, sysVars, Rows, Recorded
  <2> QED
    BY <1>4, <2>1, <2>2
       DEF StatByKey, With, bookVars, Goto, Undeleted, CopiesAreRows, TypeOK
<1>5. ASSUME NEW w \in Worker,
              Fetch(w) \/ FetchFails(w) \/ FetchGone(w) \/ MarkUnavailable(w)
      PROVE  CopiesAreRows'
  BY <1>5 DEF Fetch, FetchFails, FetchGone, MarkUnavailable
<1>6. ASSUME NEW w \in Worker, CheckOwner(w) PROVE CopiesAreRows'
  <2>1. ~Owns(item[w]) /\ Rows' = Rows
    BY <1>6
       DEF CheckOwner, Owns, sysVars, Undeleted, Unrecorded, PastOwn, Locked,
           ContentLocked, Rows, Recorded
  <2>2. Goto(w, "publish") /\ UNCHANGED <<path, hash, copies>>
    BY <1>6, <2>1 DEF CheckOwner
  <2> QED
    BY <1>6, <2>1, <2>2 DEF CheckOwner, Goto, Undeleted, CopiesAreRows, TypeOK
<1>7. ASSUME NEW w \in Worker,
              Publish(w) \/ RenameOver(w) \/ RenameFails(w) \/ NextName(w)
      PROVE  CopiesAreRows'
  BY <1>7 DEF Publish, RenameOver, RenameFails, NextName, NextNumber
<1>8. ASSUME NEW w \in Worker,
              TargetTaken(w) \/ StatStale(w) \/ RemoveStale(w)
      PROVE  CopiesAreRows'
  BY <1>8 DEF TargetTaken, StatStale, NextNumber, RemoveStale
<1>9. ASSUME NEW w \in Worker,
              FindByContent(w) \/ StatByContent(w) \/ RemoveDuplicate(w)
              \/ CreateDownload(w) \/ StatementFails(w)
      PROVE  CopiesAreRows'
  BY <1>9
     DEF FindByContent, StatByContent, RemoveDuplicate, CreateDownload,
         StatementFails
<1>10. ASSUME NEW p \in Path, UserDeletes(p) PROVE CopiesAreRows'
  BY <1>10 DEF UserDeletes
<1>11. CASE PruneUnavailable
  BY <1>11 DEF PruneUnavailable
<1>12. CASE Crash
  BY <1>12 DEF Crash
<1>13. CASE UNCHANGED vars
  BY <1>13 DEF vars
<1> QED
  BY <1>1, <1>2, <1>3, <1>4, <1>5, <1>6, <1>7, <1>8, <1>9, <1>10, <1>11,
     <1>12, <1>13 DEF Next, Step

(* No step takes the file of a row away.                                   *)
LEMMA RecordTrueKept ==
  ASSUME TypeOK, MediaExclusive, ContentExclusive, OwnCopy, Undeleted, deletes' = 0, [Next]_vars
  PROVE  RecordTrue'
<1> USE NoneAssumption
<1> USE DEF RecordTrue, Recorded, Rows, CopiesAreRows, NoReplace, MineIsMine,
           Mine, Exists, Unrecorded, PastOwn, NoRow, Undeleted, TypeOK, Goto,
           sysVars, callVars, bookVars, ContentLocked, Locked
<1>1. ASSUME NEW w \in Worker, NEW i \in Item, Call(w, i) PROVE RecordTrue'
  BY <1>1 DEF Call, With
<1>2. ASSUME NEW w \in Worker,
              LockMedia(w) \/ CancelWait(w) \/ LockContent(w)
      PROVE  RecordTrue'
  BY <1>2 DEF LockMedia, CancelWait, LockContent
<1>3. ASSUME NEW w \in Worker,
              LookUp(w) \/ StatOwn(w) \/ FindByKey(w) \/ StatByKey(w)
      PROVE  RecordTrue'
  BY <1>3 DEF LookUp, StatOwn, FindByKey, StatByKey, With
<1>4. ASSUME NEW w \in Worker,
              Fetch(w) \/ FetchFails(w) \/ FetchGone(w) \/ MarkUnavailable(w)
      PROVE  RecordTrue'
  BY <1>4 DEF Fetch, FetchFails, FetchGone, MarkUnavailable
<1>5. ASSUME NEW w \in Worker, CheckOwner(w) PROVE RecordTrue'
  BY <1>5 DEF CheckOwner
<1>6. ASSUME NEW w \in Worker, Publish(w) PROVE RecordTrue'
  <2>1. \A i \in Recorded : record[i].path # path[w] /\ record[i].path \in Path
    <3>1. \A i \in Recorded : disk[record[i].path] \in Content /\ record[i].path \in Path
      BY <1>6
         DEF Publish, bookVars, Undeleted, RecordTrue, Recorded, TypeOK, Row
    <3>2. disk[path[w]] = None
      BY <1>6 DEF Publish, Exists
    <3> QED
      BY <3>1, <3>2, NoneAssumption
  <2> QED
    BY <1>6, <2>1
       DEF Publish, bookVars, Undeleted, RecordTrue, Recorded, TypeOK
<1>7. ASSUME NEW w \in Worker, RenameOver(w) PROVE RecordTrue'
  BY <1>7 DEF RenameOver
<1>8. ASSUME NEW w \in Worker, RenameFails(w) PROVE RecordTrue'
  BY <1>8 DEF RenameFails
<1>9. ASSUME NEW w \in Worker, NextName(w) PROVE RecordTrue'
  BY <1>9 DEF NextName, NextNumber
<1>10. ASSUME NEW w \in Worker,
              TargetTaken(w) \/ StatStale(w) \/ RemoveStale(w)
      PROVE  RecordTrue'
  BY <1>10 DEF TargetTaken, StatStale, NextNumber, RemoveStale
<1>11. ASSUME NEW w \in Worker,
              FindByContent(w) \/ StatByContent(w) \/ StatementFails(w)
      PROVE  RecordTrue'
  BY <1>11 DEF FindByContent, StatByContent, StatementFails
<1>12. ASSUME NEW w \in Worker, RemoveDuplicate(w) PROVE RecordTrue'
  BY <1>12 DEF RemoveDuplicate
<1>13. ASSUME NEW w \in Worker, CreateDownload(w) PROVE RecordTrue'
  BY <1>13 DEF CreateDownload
<1>14. ASSUME NEW p \in Path, UserDeletes(p) PROVE RecordTrue'
  BY <1>14 DEF UserDeletes
<1>15. CASE PruneUnavailable
  BY <1>15 DEF PruneUnavailable
<1>16. CASE Crash
  BY <1>16 DEF Crash
<1>17. CASE UNCHANGED vars
  BY <1>17 DEF vars
<1> QED
  BY <1>1, <1>2, <1>3, <1>4, <1>5, <1>6, <1>7, <1>8, <1>9, <1>10, <1>11,
     <1>12, <1>13, <1>14, <1>15, <1>16, <1>17 DEF Next, Step

(* ... nor the file a call has published.                                  *)
LEMMA MineKept ==
  ASSUME TypeOK, MediaExclusive, ContentExclusive, OwnCopy, Undeleted, deletes' = 0, [Next]_vars
  PROVE  MineIsMine'
<1> USE NoneAssumption
<1> USE DEF RecordTrue, Recorded, Rows, CopiesAreRows, NoReplace, MineIsMine,
           Mine, InFlight, Exists, Undeleted, TypeOK, Goto, sysVars,
           callVars, bookVars, ContentLocked, Locked
<1>1. ASSUME NEW w \in Worker, NEW i \in Item, Call(w, i) PROVE MineIsMine'
  BY <1>1 DEF Call, With
<1>2. ASSUME NEW w \in Worker,
              LockMedia(w) \/ CancelWait(w) \/ LockContent(w)
      PROVE  MineIsMine'
  BY <1>2 DEF LockMedia, CancelWait, LockContent
<1>3. ASSUME NEW w \in Worker,
              LookUp(w) \/ StatOwn(w) \/ FindByKey(w) \/ StatByKey(w)
      PROVE  MineIsMine'
  BY <1>3 DEF LookUp, StatOwn, FindByKey, StatByKey, With
<1>4. ASSUME NEW w \in Worker,
              Fetch(w) \/ FetchFails(w) \/ FetchGone(w) \/ MarkUnavailable(w)
      PROVE  MineIsMine'
  BY <1>4 DEF Fetch, FetchFails, FetchGone, MarkUnavailable
<1>5. ASSUME NEW w \in Worker, CheckOwner(w) PROVE MineIsMine'
  BY <1>5 DEF CheckOwner
<1>6. ASSUME NEW w \in Worker, Publish(w) PROVE MineIsMine'
  <2>1. \A i \in Recorded : record[i].path # path[w] /\ record[i].path \in Path
    <3>1. \A i \in Recorded : disk[record[i].path] \in Content /\ record[i].path \in Path
      BY <1>6
         DEF Publish, bookVars, Undeleted, RecordTrue, Recorded, TypeOK, Row
    <3>2. disk[path[w]] = None
      BY <1>6 DEF Publish, Exists
    <3> QED
      BY <3>1, <3>2, NoneAssumption
  <2>2. \A v \in Worker \ {w} : InFlight(v) => path[v] # path[w]
    <3>1. \A v \in Worker : InFlight(v) => disk[path[v]] \in Content \cup {Placeholder}
      BY <1>6
         DEF Publish, bookVars, Undeleted, MineIsMine, InFlight, ContentLocked,
             TypeOK
    <3>2. disk[path[w]] = None
      BY <1>6 DEF Publish, Exists
    <3> QED
      BY <3>1, <3>2, NoneAssumption
  <2>3. /\ Rows' = Rows /\ \A r \in Rows : r.path # path[w]
        /\ UNCHANGED <<path, hash>>
        /\ \/ at' = [at EXCEPT ![w] = "hashlock"] /\ disk' = [disk EXCEPT ![path[w]] = hash[w]]
           \/ at' = [at EXCEPT ![w] = "reserved"] /\ disk' = [disk EXCEPT ![path[w]] = Placeholder]
    BY <1>6, <2>1 DEF Publish, Rows, Recorded, Goto
  <2> SUFFICES ASSUME NEW u \in Worker
               PROVE  (/\ at[u] = "reserved" => disk[path[u]] = Placeholder
                       /\ at[u] \in {"hashlock", "dupes", "statHash", "remove", "keep"} => disk[path[u]] = hash[u]
                       /\ at[u] \in Mine =>
                            /\ \A r \in Rows : r.path # path[u]
                            /\ \A v \in Worker \ {u} : InFlight(v) => path[v] # path[u])'
    BY DEF MineIsMine
  <2>4. CASE u = w
    BY <2>2, <2>3, <2>4 DEF InFlight, ContentLocked, TypeOK
  <2>5. CASE u # w
    <3> HIDE DEF Recorded, Rows, RecordTrue, CopiesAreRows, NoReplace
    <3>1. MineIsMine /\ at'[u] = at[u]
      BY <1>6, <2>3, <2>5 DEF Publish, bookVars, Undeleted, TypeOK
    <3> QED
      BY <2>2, <2>3, <2>5, <3>1
         DEF MineIsMine, InFlight, ContentLocked, Mine, TypeOK
  <2> QED
    BY <2>4, <2>5
<1>7. ASSUME NEW w \in Worker, RenameOver(w) PROVE MineIsMine'
  BY <1>7 DEF RenameOver
<1>8. ASSUME NEW w \in Worker, RenameFails(w) PROVE MineIsMine'
  BY <1>8 DEF RenameFails
<1>9. ASSUME NEW w \in Worker, NextName(w) PROVE MineIsMine'
  BY <1>9 DEF NextName, NextNumber
<1>10. ASSUME NEW w \in Worker,
              TargetTaken(w) \/ StatStale(w) \/ RemoveStale(w)
      PROVE  MineIsMine'
  BY <1>10 DEF TargetTaken, StatStale, NextNumber, RemoveStale
<1>11. ASSUME NEW w \in Worker,
              FindByContent(w) \/ StatByContent(w) \/ StatementFails(w)
      PROVE  MineIsMine'
  BY <1>11 DEF FindByContent, StatByContent, StatementFails
<1>12. ASSUME NEW w \in Worker, RemoveDuplicate(w) PROVE MineIsMine'
  <2>1. PICK r \in copies[w] : path' = [path EXCEPT ![w] = r.path]
    BY <1>12 DEF RemoveDuplicate
  <2>2. /\ r \in Rows /\ r.path \in Path /\ r.path # path[w] /\ disk[r.path] = hash[w]
    BY <1>12
       DEF RemoveDuplicate, bookVars, Undeleted, KnowsContent, OthersOf,
           RecordTrue, Rows, TypeOK, Row
  <2>3. /\ at[w] = "remove" /\ Rows' = Rows /\ hash' = hash
        /\ at' = [at EXCEPT ![w] = "keep"] /\ disk' = [disk EXCEPT ![path[w]] = None]
    BY <1>12 DEF RemoveDuplicate, Rows, Recorded, Goto
  <2>4. MineIsMine /\ \A u \in Worker \ {w} : InFlight(u) => path[u] # path[w]
    BY <1>12, <2>3 DEF RemoveDuplicate, bookVars, Undeleted, MineIsMine, Mine
  <2>5. \A u \in Worker \ {w} : at[u] \in Mine => path[u] # r.path
    BY <2>2, <2>4 DEF MineIsMine
  <2> QED
    BY <2>1, <2>2, <2>3, <2>4, <2>5
       DEF MineIsMine, InFlight, ContentLocked, Mine, TypeOK
<1>13. ASSUME NEW w \in Worker, CreateDownload(w) PROVE MineIsMine'
  BY <1>13 DEF CreateDownload
<1>14. ASSUME NEW p \in Path, UserDeletes(p) PROVE MineIsMine'
  BY <1>14 DEF UserDeletes
<1>15. CASE PruneUnavailable
  BY <1>15 DEF PruneUnavailable
<1>16. CASE Crash
  BY <1>16 DEF Crash
<1>17. CASE UNCHANGED vars
  BY <1>17 DEF vars
<1> QED
  BY <1>1, <1>2, <1>3, <1>4, <1>5, <1>6, <1>7, <1>8, <1>9, <1>10, <1>11,
     <1>12, <1>13, <1>14, <1>15, <1>16, <1>17 DEF Next, Step

(* No step adds a second file of a content.                                *)
LEMMA OneCopyKept ==
  ASSUME TypeOK, MediaExclusive, ContentExclusive, OwnCopy, Undeleted, deletes' = 0, [Next]_vars
  PROVE  OneCopy'
<1> USE NoneAssumption
<1> USE DEF OneCopy, KnowsContent, OthersOf, CopiesAreRows, Rows, Recorded,
           Unrecorded, PastOwn, NoRow, Undeleted, TypeOK, Goto, sysVars,
           callVars, bookVars, ContentLocked, Locked
<1>1. ASSUME NEW w \in Worker, NEW i \in Item, Call(w, i) PROVE OneCopy'
  BY <1>1 DEF Call, With
<1>2. ASSUME NEW w \in Worker,
              LockMedia(w) \/ CancelWait(w) \/ LockContent(w)
      PROVE  OneCopy'
  BY <1>2 DEF LockMedia, CancelWait, LockContent
<1>3. ASSUME NEW w \in Worker,
              LookUp(w) \/ StatOwn(w) \/ FindByKey(w) \/ StatByKey(w)
      PROVE  OneCopy'
  BY <1>3 DEF LookUp, StatOwn, FindByKey, StatByKey, With
<1>4. ASSUME NEW w \in Worker,
              Fetch(w) \/ FetchFails(w) \/ FetchGone(w) \/ MarkUnavailable(w)
      PROVE  OneCopy'
  BY <1>4 DEF Fetch, FetchFails, FetchGone, MarkUnavailable
<1>5. ASSUME NEW w \in Worker, CheckOwner(w) PROVE OneCopy'
  BY <1>5 DEF CheckOwner
<1>6. ASSUME NEW w \in Worker,
              Publish(w) \/ RenameOver(w) \/ RenameFails(w) \/ NextName(w)
      PROVE  OneCopy'
  BY <1>6 DEF Publish, RenameOver, RenameFails, NextName, NextNumber
<1>7. ASSUME NEW w \in Worker,
              TargetTaken(w) \/ StatStale(w) \/ RemoveStale(w)
      PROVE  OneCopy'
  BY <1>7 DEF TargetTaken, StatStale, NextNumber, RemoveStale
<1>8. ASSUME NEW w \in Worker,
              FindByContent(w) \/ StatByContent(w) \/ RemoveDuplicate(w)
              \/ CreateDownload(w) \/ StatementFails(w)
      PROVE  OneCopy'
  BY <1>8
     DEF FindByContent, StatByContent, RemoveDuplicate, CreateDownload,
         StatementFails
<1>9. ASSUME NEW p \in Path, UserDeletes(p) PROVE OneCopy'
  BY <1>9 DEF UserDeletes
<1>10. CASE PruneUnavailable
  BY <1>10 DEF PruneUnavailable
<1>11. CASE Crash
  BY <1>11 DEF Crash
<1>12. CASE UNCHANGED vars
  BY <1>12 DEF vars
<1> QED
  BY <1>1, <1>2, <1>3, <1>4, <1>5, <1>6, <1>7, <1>8, <1>9, <1>10, <1>11,
     <1>12 DEF Next, Step

(* With the content lock a call's view of the rows stays right.            *)
LEMMA KnowsKept ==
  ASSUME TypeOK, MediaExclusive, ContentExclusive, OwnCopy, Undeleted, deletes' = 0, [Next]_vars
  PROVE  KnowsContent'
<1> USE NoneAssumption
<1> USE DEF OneCopy, RecordTrue, ContentExclusive, HasContent, KnowsContent,
           OthersOf, CopiesAreRows, Rows, Recorded, Unrecorded, PastOwn,
           NoRow, Exists, Undeleted, TypeOK, Goto, sysVars, callVars,
           bookVars, ContentLocked, Locked
<1>1. ASSUME NEW w \in Worker, NEW i \in Item, Call(w, i) PROVE KnowsContent'
  BY <1>1 DEF Call, With
<1>2. ASSUME NEW w \in Worker,
              LockMedia(w) \/ CancelWait(w) \/ LockContent(w)
      PROVE  KnowsContent'
  BY <1>2 DEF LockMedia, CancelWait, LockContent
<1>3. ASSUME NEW w \in Worker,
              LookUp(w) \/ StatOwn(w) \/ FindByKey(w) \/ StatByKey(w)
      PROVE  KnowsContent'
  BY <1>3 DEF LookUp, StatOwn, FindByKey, StatByKey, With
<1>4. ASSUME NEW w \in Worker,
              Fetch(w) \/ FetchFails(w) \/ FetchGone(w) \/ MarkUnavailable(w)
      PROVE  KnowsContent'
  BY <1>4 DEF Fetch, FetchFails, FetchGone, MarkUnavailable
<1>5. ASSUME NEW w \in Worker, CheckOwner(w) PROVE KnowsContent'
  BY <1>5 DEF CheckOwner
<1>6. ASSUME NEW w \in Worker,
              Publish(w) \/ RenameOver(w) \/ RenameFails(w) \/ NextName(w)
      PROVE  KnowsContent'
  BY <1>6 DEF Publish, RenameOver, RenameFails, NextName, NextNumber
<1>7. ASSUME NEW w \in Worker,
              TargetTaken(w) \/ StatStale(w) \/ RemoveStale(w)
      PROVE  KnowsContent'
  BY <1>7 DEF TargetTaken, StatStale, NextNumber, RemoveStale
<1>8. ASSUME NEW w \in Worker,
              FindByContent(w) \/ RemoveDuplicate(w) \/ CreateDownload(w)
              \/ StatementFails(w)
      PROVE  KnowsContent'
  BY <1>8 DEF FindByContent, RemoveDuplicate, CreateDownload, StatementFails
<1>9. ASSUME NEW w \in Worker, StatByContent(w) PROVE KnowsContent'
  <2>1. /\ at[w] = "statHash" /\ copies[w] = OthersOf(w) /\ KnowsContent
        /\ UNCHANGED <<record, path, hash>>
    BY <1>9 DEF StatByContent, sysVars, bookVars, Undeleted, KnowsContent
  <2>2. \A r \in copies[w] : Exists(r.path)
    BY <1>9, <2>1, NoneAssumption
       DEF StatByContent, bookVars, Undeleted, RecordTrue, OthersOf, Rows, Recorded, Exists, TypeOK, Row
  <2>3. \A v \in Worker : OthersOf(v)' = OthersOf(v)
    BY <2>1 DEF OthersOf, Rows, Recorded
  <2> HIDE DEF OthersOf, Rows, Recorded, RecordTrue, OneCopy, CopiesAreRows,
               Undeleted, TypeOK, ContentExclusive
  <2>4. /\ \A v \in Worker \ {w} : at'[v] = at[v] /\ copies'[v] = copies[v]
        /\ \/ at'[w] = "remove" /\ \E r \in copies[w] : copies'[w] = {r}
           \/ at'[w] = "keep" /\ copies[w] = {}
    BY <1>9, <2>2 DEF StatByContent, Goto, TypeOK
  <2> QED
    BY <2>1, <2>3, <2>4 DEF KnowsContent
<1>10. ASSUME NEW p \in Path, UserDeletes(p) PROVE KnowsContent'
  BY <1>10 DEF UserDeletes
<1>11. CASE PruneUnavailable
  BY <1>11 DEF PruneUnavailable
<1>12. CASE Crash
  BY <1>12 DEF Crash
<1>13. CASE UNCHANGED vars
  BY <1>13 DEF vars
<1> QED
  BY <1>1, <1>2, <1>3, <1>4, <1>5, <1>6, <1>7, <1>8, <1>9, <1>10, <1>11,
     <1>12, <1>13 DEF Next, Step

(* The inductive invariant and what follows from it.                       *)
LEMMA InitIInv == Init => IInv
<1> SUFFICES ASSUME Init PROVE IInv
  OBVIOUS
<1>1. TypeOK /\ OwnRow
  BY InitType
<1>2. MediaExclusive /\ ContentExclusive /\ NotLost /\ OwnCopy
  BY DEF Init, MediaExclusive, ContentExclusive, HasMedia, HasContent, NotLost, OwnCopy, Locked, ContentLocked
<1>3. Kept /\ Rows = {} /\ Recorded = {}
  BY DEF Init, Kept, Exists, Rows, Recorded
<1>4. Undeleted
  BY <1>3
     DEF Init, Undeleted, RecordTrue, OneCopy, Unrecorded, PastOwn, Locked,
         ContentLocked,
     NoReplace, CopiesAreRows, MineIsMine, Mine, KnowsContent
<1> QED
  BY <1>1, <1>2, <1>3, <1>4 DEF IInv

LEMMA StepIInv == IInv /\ [Next]_vars => IInv'
<1> SUFFICES ASSUME IInv, [Next]_vars PROVE IInv'
  OBVIOUS
<1> USE DEF IInv
<1>1. TypeOK' /\ OwnRow'
  BY TypeKept
<1>2. MediaExclusive' /\ ContentExclusive'
  BY LocksKept
<1>3. NotLost' /\ OwnCopy'
  BY OwnKept
<1>4. Kept'
  BY KeptKept
<1>5. Undeleted'
  <2> SUFFICES ASSUME deletes' = 0
               PROVE  (/\ RecordTrue /\ OneCopy /\ Unrecorded /\ NoReplace
                       /\ CopiesAreRows /\ MineIsMine /\ KnowsContent)'
    BY DEF Undeleted
  <2> QED
    BY RecordTrueKept, OneCopyKept, UnrecordedKept, NoReplaceKept, CopiesKept, MineKept, KnowsKept
<1> QED
  BY <1>1, <1>2, <1>3, <1>4, <1>5

(* The inductive invariant, from which the theorems below follow.          *)
THEOREM IInvCorrect == Spec => []IInv
BY InitIInv, StepIInv, PTL DEF Spec

(* The variables keep their types; the number of a name stays in bounds.   *)
THEOREM TypeCorrect == Spec => []TypeOK
<1>1. IInv => TypeOK
  BY DEF IInv
<1> QED
  BY <1>1, IInvCorrect, PTL

(* While nobody deletes files every row tells the truth about the disk,    *)
(* for any number of goroutines, crashes and failed statements.            *)
THEOREM RecordCorrect == Spec => []RecordTrue
<1>1. IInv => RecordTrue
  BY DEF IInv, Undeleted, RecordTrue
<1> QED
  BY <1>1, IInvCorrect, PTL

(* ... and one content has one file, whatever URLs it came by.             *)
THEOREM OneCopyCorrect == Spec => []OneCopy
<1>1. IInv => OneCopy
  BY DEF IInv, Undeleted, OneCopy
<1> QED
  BY <1>1, IInvCorrect, PTL

(* A URL found lost by one call is not downloaded by another.              *)
THEOREM LostCorrect == Spec => []LostIsSkipped
<1>1. IInv => LostIsSkipped
  BY DEF IInv, NotLost, LostIsSkipped, Locked
<1> QED
  BY <1>1, IInvCorrect, PTL

(* Without crashes and failed statements every file has a row, or a call   *)
(* that will record or remove it, whatever the user deletes.               *)
THEOREM NoForgottenCorrect == Spec => []NoForgottenFile
<1>1. IInv => NoForgottenFile
  BY DEF IInv, Kept, NoForgottenFile
<1> QED
  BY <1>1, IInvCorrect, PTL
=============================================================================
