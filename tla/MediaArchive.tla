---------------------------- MODULE MediaArchive ----------------------------
(***************************************************************************)
(* Manager.downloadMedia: one media of one tweet is looked up, downloaded, *)
(* published on disk under a free name, compared with what is archived     *)
(* already and recorded (internal/jobs, internal/downloader, downloads and *)
(* unavailable_media in internal/storage).  The disk and the database are  *)
(* two systems: an action is one system call on files, one SQL statement   *)
(* or one lock operation, and other calls, a crash or the user, who may    *)
(* delete files, come in between.                                          *)
(*                                                                         *)
(* The two locks are used as KeyMutex promises them (see KeyLock).         *)
(* Temporary files are left out: their names are never media names; so are *)
(* posters and the caller's own marking of a URL when the call's failed.   *)
(***************************************************************************)
EXTENDS Integers

CONSTANTS
  Worker,      \* goroutines that may be inside downloadMedia
  Item,        \* (tweet, media URL) pairs: the key of a downloads row
  Url, Name, Content,
  Media,       \* media identities (downloader.MediaIdentity)
  UrlOf,       \* UrlOf[i]: the URL of item i
  NameOf,      \* NameOf[i]: directory and file name its text gives it
  KeyOf,       \* KeyOf[u]: the media identity of a URL
  ContentOf,   \* ContentOf[u]: the bytes a URL delivers
  MaxSuffix,   \* maxFilenameConflicts: the last "(n)" that is tried
  HardLinks,   \* whether the file system has hard links
  MaxCrashes,  \* bound: crashes of the process
  MaxFaults,   \* bound: statements that fail
  MaxDeletes,  \* bound: files the user deletes
  MaxMishaps,  \* bound: these together
  None, Placeholder

ASSUME DataAssumption == /\ UrlOf \in [Item -> Url] /\ NameOf \in [Item -> Name]
                         /\ KeyOf \in [Url -> Media] /\ ContentOf \in [Url -> Content]
ASSUME NumberAssumption == /\ MaxSuffix \in Nat /\ MaxCrashes \in Nat
                           /\ MaxFaults \in Nat /\ MaxDeletes \in Nat /\ MaxMishaps \in Nat
                           /\ HardLinks \in BOOLEAN
ASSUME NoneAssumption == None \notin Content /\ Placeholder \notin Content /\ None # Placeholder

Path == Name \X (0..MaxSuffix)
NoRow == [path |-> None, hash |-> None]
Row == [path : Path, hash : Content]

VARIABLES
  disk,         \* disk[p]: the content of the file at p, None without one
  record,       \* record[i]: the downloads row of i, NoRow without one
  unavailable,  \* the URLs in unavailable_media
  at,           \* at[w]: where the call of w is, "idle" without one
  item,         \* item[w]: the item of the call
  path, hash,   \* the file the call is about to record, and its content
  copies,       \* rows it has found and not yet looked at
  replace,      \* it may replace the file at its first choice of a name
  crashes, faults, deletes

sysVars == <<disk, record, unavailable>>
callVars == <<at, item, path, hash, copies, replace>>
bookVars == <<crashes, faults, deletes>>
vars == <<disk, record, unavailable, at, item, path, hash, copies, replace,
          crashes, faults, deletes>>

MediaOf(i) == KeyOf[UrlOf[i]]
BytesOf(i) == ContentOf[UrlOf[i]]
Base(i) == <<NameOf[i], 0>>
Exists(p) == disk[p] # None

(* The locks a call holds, by where it is: the media lock until it returns,*)
(* the content lock from the look-up by content on.                        *)
ContentLocked == {"dupes", "statHash", "remove", "keep"}
Locked == {"lookup", "own", "find", "statKey", "reuse", "open", "complete", "partial",
           "mark", "publish", "stale", "discard", "reserved", "hashlock"} \cup ContentLocked
HasMedia(w, m) == at[w] \in Locked /\ MediaOf(item[w]) = m
HasContent(w, c) == at[w] \in ContentLocked /\ hash[w] = c

MishapsLeft == crashes + faults + deletes < MaxMishaps

Goto(w, pc) == at' = [at EXCEPT ![w] = pc]
With(w, p, h) == path' = [path EXCEPT ![w] = p] /\ hash' = [hash EXCEPT ![w] = h]

Init ==
  /\ disk = [p \in Path |-> None]
  /\ record = [i \in Item |-> NoRow]
  /\ unavailable = {}
  /\ at = [w \in Worker |-> "idle"]
  /\ item \in [Worker -> Item]
  /\ path = [w \in Worker |-> Base(item[w])]
  /\ hash = [w \in Worker |-> BytesOf(item[w])]
  /\ copies = [w \in Worker |-> {}]
  /\ replace = [w \in Worker |-> FALSE]
  /\ crashes = 0 /\ faults = 0 /\ deletes = 0
-----------------------------------------------------------------------------
(* A call for item i; the archive asks for the same item again and again.  *)
Call(w, i) ==
  /\ at[w] = "idle"
  /\ Goto(w, "lock")
  /\ item' = [item EXCEPT ![w] = i]
  /\ With(w, Base(i), BytesOf(i))
  /\ copies' = [copies EXCEPT ![w] = {}]
  /\ replace' = [replace EXCEPT ![w] = FALSE]
  /\ UNCHANGED <<sysVars, bookVars>>

(* lockMedia by media identity; the job's context may end the wait.        *)
(* Mutant: no lock.                                                        *)
MutLockMedia(w) ==
  /\ at[w] = "lock"
  /\ Goto(w, "lookup")
  /\ UNCHANGED <<sysVars, item, path, hash, copies, replace, bookVars>>

LockMedia(w) ==
  /\ at[w] = "lock"
  /\ \A v \in Worker : ~HasMedia(v, MediaOf(item[w]))
  /\ Goto(w, "lookup")
  /\ UNCHANGED <<sysVars, item, path, hash, copies, replace, bookVars>>

CancelWait(w) ==
  /\ at[w] = "lock"
  /\ Goto(w, "idle")
  /\ UNCHANGED <<sysVars, item, path, hash, copies, replace, bookVars>>

(* GetMediaDownloadState: the item's own row and whether its URL is lost.  *)
LookUp(w) ==
  /\ at[w] = "lookup"
  /\ IF UrlOf[item[w]] \in unavailable THEN Goto(w, "idle") /\ UNCHANGED copies
     ELSE /\ Goto(w, "own")
          /\ copies' = [copies EXCEPT ![w] = {record[item[w]]} \ {NoRow}]
  /\ UNCHANGED <<sysVars, item, path, hash, replace, bookVars>>

(* skipArchivedMedia, first part: the file of the own row is there.        *)
StatOwn(w) ==
  /\ at[w] = "own"
  /\ Goto(w, IF \E r \in copies[w] : Exists(r.path) THEN "idle" ELSE "find")
  /\ UNCHANGED <<sysVars, item, path, hash, copies, replace, bookVars>>

(* Second part: FindDownloadsByMediaKey, then a stat of each row's file.   *)
(* The order, by id, is left open.                                         *)
FindByKey(w) ==
  /\ at[w] = "find"
  /\ Goto(w, "statKey")
  /\ copies' = [copies EXCEPT ![w] =
       {record[i] : i \in {j \in Item : MediaOf(j) = MediaOf(item[w])}} \ {NoRow}]
  /\ UNCHANGED <<sysVars, item, path, hash, replace, bookVars>>

StatByKey(w) ==
  /\ at[w] = "statKey"
  /\ \/ \E r \in copies[w] :
          /\ copies' = [copies EXCEPT ![w] = @ \ {r}]
          /\ IF Exists(r.path) THEN Goto(w, "reuse") /\ With(w, r.path, r.hash)
             ELSE UNCHANGED <<at, path, hash>>
     \/ copies[w] = {} /\ Goto(w, "open") /\ UNCHANGED <<path, hash, copies>>
  /\ UNCHANGED <<sysVars, item, replace, bookVars>>
-----------------------------------------------------------------------------
(* SaveMedia: the request, then existingFileState of the first choice of a *)
(* name.  A file of the expected length counts as complete; without a      *)
(* Content-Length none does.  Contents of different bytes have different   *)
(* lengths.                                                                *)
FoundComplete(w) == disk[Base(item[w])] = BytesOf(item[w])

Fetch(w) ==
  /\ at[w] = "open"
  /\ \/ ~Exists(Base(item[w])) /\ Goto(w, "publish")
     \/ Exists(Base(item[w])) /\ Goto(w, "partial")
     \/ FoundComplete(w) /\ Goto(w, "complete")
  /\ UNCHANGED <<sysVars, item, path, hash, copies, replace, bookVars>>

(* The request, or later its body, fails: the job's context is cancelled   *)
(* or the error is one that is retried.                                    *)
FetchFails(w) ==
  /\ at[w] \in {"open", "complete", "partial"}
  /\ Goto(w, "idle")
  /\ UNCHANGED <<sysVars, item, path, hash, copies, replace, bookVars>>

(* 404, 410 or a takedown: the URL is marked.                              *)
FetchGone(w) ==
  /\ at[w] = "open"
  /\ Goto(w, "mark")
  /\ UNCHANGED <<sysVars, item, path, hash, copies, replace, bookVars>>

MarkUnavailable(w) ==
  /\ at[w] = "mark"
  /\ unavailable' = unavailable \cup {UrlOf[item[w]]}
  /\ Goto(w, "idle")
  /\ UNCHANGED <<disk, record, item, path, hash, copies, replace, bookVars>>

(* ExistingFileOwner: a file counts as the item's own only if its row says *)
(* so; an error of the query counts as no.  A complete own file is kept,   *)
(* with the hash of its row; an incomplete one may be replaced; any other  *)
(* file makes the download take a numbered name.                           *)
(* Mutant: every file found is the item's own.                             *)
MutOwns(i) == TRUE

Owns(i) == record[i] # NoRow /\ record[i].path = Base(i)

CheckOwner(w) ==
  /\ at[w] \in {"complete", "partial"}
  /\ \E owner \in {Owns(item[w])} \cup (IF faults < MaxFaults /\ MishapsLeft THEN {FALSE} ELSE {}) :
       /\ faults' = IF owner = Owns(item[w]) THEN faults ELSE faults + 1
       /\ IF at[w] = "complete" /\ owner
          THEN Goto(w, "reuse") /\ hash' = [hash EXCEPT ![w] = record[item[w]].hash]
          ELSE Goto(w, "publish") /\ UNCHANGED hash
       /\ replace' = [replace EXCEPT ![w] = at[w] = "partial" /\ owner]
  /\ UNCHANGED <<sysVars, item, path, copies, crashes, deletes>>

(* publishTempFile: the temporary file, complete, is linked to the first   *)
(* free name, or, without hard links, renamed over a placeholder that      *)
(* reserves the name.                                                      *)
Publish(w) ==
  /\ at[w] = "publish" /\ ~Exists(path[w])
  /\ IF HardLinks
     THEN disk' = [disk EXCEPT ![path[w]] = hash[w]] /\ Goto(w, "hashlock")
     ELSE disk' = [disk EXCEPT ![path[w]] = Placeholder] /\ Goto(w, "reserved")
  /\ UNCHANGED <<record, unavailable, item, path, hash, copies, replace, bookVars>>

RenameOver(w) ==
  /\ at[w] = "reserved"
  /\ disk' = [disk EXCEPT ![path[w]] = hash[w]]
  /\ Goto(w, "hashlock")
  /\ UNCHANGED <<record, unavailable, item, path, hash, copies, replace, bookVars>>

RenameFails(w) ==
  /\ at[w] = "reserved"
  /\ faults < MaxFaults /\ MishapsLeft /\ faults' = faults + 1
  /\ disk' = [disk EXCEPT ![path[w]] = None]
  /\ Goto(w, "idle")
  /\ UNCHANGED <<record, unavailable, item, path, hash, copies, replace, crashes, deletes>>

(* The name is taken: the next number is tried.                            *)
(* Mutant of NextName: the same name is tried again.                       *)
NextNumber(w) ==
  IF path[w][2] < MaxSuffix
  THEN Goto(w, "publish") /\ path' = [path EXCEPT ![w] = <<@[1], @[2] + 1>>]
  ELSE Goto(w, "idle") /\ UNCHANGED path

MutSameName(w) ==
  /\ at[w] = "publish" /\ Exists(path[w]) /\ ~replace[w]
  /\ UNCHANGED vars

NextName(w) ==
  /\ at[w] = "publish" /\ Exists(path[w]) /\ ~replace[w]
  /\ NextNumber(w)
  /\ UNCHANGED <<sysVars, item, hash, copies, replace, bookVars>>

(* removeIncompleteLocalTarget, tried once and for the first choice of a   *)
(* name only: the own file in the way is looked at again.  It is kept if it*)
(* has become complete, removed if it has not; if it is gone the first     *)
(* name is given up all the same.                                          *)
TargetTaken(w) ==
  /\ at[w] = "publish" /\ Exists(path[w]) /\ replace[w]
  /\ Goto(w, "stale")
  /\ replace' = [replace EXCEPT ![w] = FALSE]
  /\ UNCHANGED <<sysVars, item, path, hash, copies, bookVars>>

StatStale(w) ==
  /\ at[w] = "stale"
  /\ \/ ~Exists(path[w]) /\ NextNumber(w) /\ UNCHANGED hash
     \/ Exists(path[w]) /\ Goto(w, "discard") /\ UNCHANGED <<path, hash>>
     \/ /\ FoundComplete(w) /\ Goto(w, "reuse")
        /\ hash' = [hash EXCEPT ![w] = record[item[w]].hash]
        /\ UNCHANGED path
  /\ UNCHANGED <<sysVars, item, copies, replace, bookVars>>

RemoveStale(w) ==
  /\ at[w] = "discard"
  /\ disk' = [disk EXCEPT ![path[w]] = None]
  /\ Goto(w, "publish")
  /\ UNCHANGED <<record, unavailable, item, path, hash, copies, replace, bookVars>>
-----------------------------------------------------------------------------
(* lockMedia by content; saveCtx is not cancelled.                         *)
(* Mutant: no lock.                                                        *)
MutLockContent(w) ==
  /\ at[w] = "hashlock"
  /\ Goto(w, "dupes")
  /\ UNCHANGED <<sysVars, item, path, hash, copies, replace, bookVars>>

LockContent(w) ==
  /\ at[w] = "hashlock"
  /\ \A v \in Worker : ~HasContent(v, hash[w])
  /\ Goto(w, "dupes")
  /\ UNCHANGED <<sysVars, item, path, hash, copies, replace, bookVars>>

(* skipSameContentMedia: FindDownloadsByContentHash, a stat of each file at*)
(* another path, and the own file is removed in favour of one found.       *)
FindByContent(w) ==
  /\ at[w] = "dupes"
  /\ Goto(w, "statHash")
  /\ copies' = [copies EXCEPT ![w] =
       {r \in {record[i] : i \in Item} : r.hash = hash[w] /\ r.path # path[w]}]
  /\ UNCHANGED <<sysVars, item, path, hash, replace, bookVars>>

StatByContent(w) ==
  /\ at[w] = "statHash"
  /\ \/ \E r \in copies[w] :
          IF Exists(r.path) THEN Goto(w, "remove") /\ copies' = [copies EXCEPT ![w] = {r}]
          ELSE UNCHANGED at /\ copies' = [copies EXCEPT ![w] = @ \ {r}]
     \/ copies[w] = {} /\ Goto(w, "keep") /\ UNCHANGED copies
  /\ UNCHANGED <<sysVars, item, path, hash, replace, bookVars>>

(* Mutant: the row points to the file found, the own file stays.           *)
MutRemoveDuplicate(w) ==
  /\ at[w] = "remove"
  /\ \E r \in copies[w] : path' = [path EXCEPT ![w] = r.path]
  /\ Goto(w, "keep")
  /\ UNCHANGED <<sysVars, item, hash, copies, replace, bookVars>>

RemoveDuplicate(w) ==
  /\ at[w] = "remove"
  /\ disk' = [disk EXCEPT ![path[w]] = None]
  /\ \E r \in copies[w] : path' = [path EXCEPT ![w] = r.path]
  /\ Goto(w, "keep")
  /\ UNCHANGED <<record, unavailable, item, hash, copies, replace, bookVars>>

(* CreateDownload: the row of the item is inserted or overwritten.         *)
CreateDownload(w) ==
  /\ at[w] \in {"reuse", "keep"}
  /\ record' = [record EXCEPT ![item[w]] = [path |-> path[w], hash |-> hash[w]]]
  /\ Goto(w, "idle")
  /\ UNCHANGED <<disk, unavailable, item, path, hash, copies, replace, bookVars>>

(* A statement or a system call fails: the call returns the error.  The    *)
(* failure at "hashlock" is the removal of the temporary file after the    *)
(* link.                                                                   *)
StatementFails(w) ==
  /\ at[w] \in Locked \ {"complete", "partial", "open", "reserved"}
  /\ faults < MaxFaults /\ MishapsLeft /\ faults' = faults + 1
  /\ Goto(w, "idle")
  /\ UNCHANGED <<sysVars, item, path, hash, copies, replace, crashes, deletes>>
-----------------------------------------------------------------------------
(* Rows of unavailable_media are pruned when they are old.                 *)
PruneUnavailable ==
  /\ \E u \in unavailable : unavailable' = unavailable \ {u}
  /\ UNCHANGED <<disk, record, callVars, bookVars>>

(* The process dies.                                                       *)
Crash ==
  /\ crashes < MaxCrashes /\ MishapsLeft /\ crashes' = crashes + 1
  /\ at' = [w \in Worker |-> "idle"]
  /\ UNCHANGED <<sysVars, item, path, hash, copies, replace, faults, deletes>>

(* The user tidies up the download directory.                              *)
UserDeletes(p) ==
  /\ Exists(p) /\ deletes < MaxDeletes /\ MishapsLeft /\ deletes' = deletes + 1
  /\ disk' = [disk EXCEPT ![p] = None]
  /\ UNCHANGED <<record, unavailable, callVars, crashes, faults>>

Step(w) ==
  \/ LookUp(w) \/ StatOwn(w) \/ FindByKey(w) \/ StatByKey(w)
  \/ Fetch(w) \/ FetchGone(w) \/ MarkUnavailable(w) \/ CheckOwner(w)
  \/ Publish(w) \/ RenameOver(w) \/ NextName(w)
  \/ TargetTaken(w) \/ StatStale(w) \/ RemoveStale(w)
  \/ FindByContent(w) \/ StatByContent(w) \/ RemoveDuplicate(w) \/ CreateDownload(w)

Next ==
  \/ \E w \in Worker :
       \/ \E i \in Item : Call(w, i)
       \/ LockMedia(w) \/ CancelWait(w) \/ LockContent(w) \/ Step(w)
       \/ FetchFails(w) \/ RenameFails(w) \/ StatementFails(w)
  \/ \E p \in Path : UserDeletes(p)
  \/ Crash \/ PruneUnavailable

(* A call goes on; the locks are fair (KeyLock!WaitEnds).                  *)
Fairness ==
  \A w \in Worker :
    WF_vars(Step(w)) /\ SF_vars(LockMedia(w)) /\ SF_vars(LockContent(w))

Spec == Init /\ [][Next]_vars
FairSpec == Spec /\ Fairness
-----------------------------------------------------------------------------
(* The values the variables take.                                          *)
TypeOK ==
  /\ disk \in [Path -> Content \cup {None, Placeholder}]
  /\ record \in [Item -> Row \cup {NoRow}]
  /\ unavailable \subseteq Url
  /\ at \in [Worker -> Locked \cup {"idle", "lock"}]
  /\ item \in [Worker -> Item]
  /\ path \in [Worker -> Path]
  /\ hash \in [Worker -> Content]
  /\ copies \in [Worker -> SUBSET Row]
  /\ replace \in [Worker -> BOOLEAN]
  /\ crashes \in 0..MaxCrashes /\ faults \in 0..MaxFaults /\ deletes \in 0..MaxDeletes

Recorded == {i \in Item : record[i] # NoRow}

(* As long as the user deletes nothing, every row points to a file with the*)
(* content the row says: no call removes, replaces or overwrites a file    *)
(* that another row, or another call's file that is yet to be recorded,    *)
(* depends on, through crashes and failed statements at any point.         *)
RecordTrue ==
  deletes = 0 => \A i \in Recorded : disk[record[i].path] = record[i].hash

(* ... and rows of one content share one file, whatever URLs, tweets and   *)
(* names it came by: the duplicates are found although two downloads of a  *)
(* content by different URLs do not know of each other.                    *)
OneCopy ==
  deletes = 0 =>
    \A i, j \in Recorded : record[i].hash = record[j].hash => record[i].path = record[j].path

(* Without a crash and a failed statement no file is forgotten: it has a   *)
(* row, or the call that published it is still going to record or remove it.*)
InFlight(w) == at[w] \in {"reserved", "hashlock"} \cup ContentLocked
NoForgottenFile ==
  crashes = 0 /\ faults = 0 =>
    \A p \in Path : Exists(p) =>
      \/ \E w \in Worker : InFlight(w) /\ path[w] = p
      \/ \E i \in Recorded : record[i].path = p

(* While a call downloads a URL no other call finds it lost, and none      *)
(* downloads a URL that is marked as lost.                                 *)
LostIsSkipped ==
  \A w \in Worker : at[w] \in {"open", "publish", "reserved", "hashlock"}
                      => UrlOf[item[w]] \notin unavailable

(* A call that was not wanted again, "skipped", or that recorded something *)
(* leaves the item with a file of its own content or of its media.         *)
Archived(i) ==
  \E j \in Item : /\ MediaOf(j) = MediaOf(i) \/ BytesOf(j) = BytesOf(i)
                  /\ disk[record[i].path] = BytesOf(j)
SkipIsTrue ==
  [][\A w \in Worker :
       at[w] = "own" /\ at'[w] = "idle" /\ faults' = faults /\ crashes' = crashes
         => Archived(item[w])]_vars

(* Every call returns: the two locks are taken in one order and every loop *)
(* ends.                                                                   *)
CallsReturn == \A w \in Worker : at[w] # "idle" ~> at[w] = "idle"
=============================================================================
