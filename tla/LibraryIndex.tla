---------------------------- MODULE LibraryIndex ----------------------------
(***************************************************************************)
(* The two caches behind the media library: the list of the newest records *)
(* (ListLibraryDownloadsWithStatus) and the snapshot of a page             *)
(* (ListLibraryDownloadsPage).  Both mix rows with the files of the        *)
(* download directory that no row knows, are built query by query under    *)
(* one lock while saves and configuration changes go on, and are dropped   *)
(* by a generation counter and, the list, by clearing it.                  *)
(***************************************************************************)
EXTENDS Integers, FiniteSets

CONSTANTS
  Shot,     \* media that get archived, each with its file
  Reader,    \* HTTP requests for the library
  MaxMoves,  \* bound: changes of the download directory
  NoIndex    \* an empty cache

ASSUME LibraryAssumption == MaxMoves \in Nat
ASSUME ShotAssumption == IsFiniteSet(Shot)

(* Download directories are numbered in the order they come into use.      *)
Dir == 0..MaxMoves

VARIABLES
  files,       \* files[d]: the media whose file is in directory d
  rows,        \* rows in downloads
  root,        \* the configured download directory
  writing,     \* writing[m]: the next step of the call that saves m
  moving,      \* the next step of updateConfig
  generation,  \* libraryCacheGen
  list,        \* libraryCache: NoIndex or what it shows
  snapshot,    \* librarySnap: NoIndex or what it was built from
  buildMu,     \* the readers that hold libraryBuildMu: none or one
  step,        \* step[r]: the next step of reader r
  kind,        \* kind[r]: "list" or "page"
  index,       \* index[r]: the index r is building or has found
  promised     \* promised[r]: what was saved and configured when r began

storeVars  == <<files, rows, root>>
writerVars == <<writing, moving>>
cacheVars  == <<generation, list, snapshot>>
readerVars == <<buildMu, step, kind, index, promised>>
libraryVars == <<storeVars, writerVars, cacheVars, readerVars>>

(* What a listing knows: rows, recorded paths, files without a row, the    *)
(* directory; a snapshot also has the generation it was built for.         *)
Nothing == [rows |-> {}, known |-> {}, orphans |-> {}, dir |-> 0, gen |-> 0]
NoPromise == [rows |-> {}, dir |-> 0]

LibraryInit ==
  /\ files = [d \in Dir |-> {}] /\ rows = {} /\ root = 0
  /\ writing = [m \in Shot |-> "new"] /\ moving = "rest"
  /\ generation = 0 /\ list = NoIndex /\ snapshot = NoIndex
  /\ buildMu = {}
  /\ step = [r \in Reader |-> "rest"]
  /\ kind = [r \in Reader |-> "list"]
  /\ index = [r \in Reader |-> Nothing]
  /\ promised = [r \in Reader |-> NoPromise]
-----------------------------------------------------------------------------
(* Writers.  A save publishes the file, commits the row and invalidates in *)
(* two steps: the counter, then the list under its mutex.                  *)
PublishFile(m) ==
  /\ writing[m] = "new"
  /\ files' = [files EXCEPT ![root] = @ \cup {m}]
  /\ writing' = [writing EXCEPT ![m] = "published"]
  /\ UNCHANGED <<rows, root, moving, cacheVars, readerVars>>

RecordFile(m) ==
  /\ writing[m] = "published"
  /\ rows' = rows \cup {m}
  /\ writing' = [writing EXCEPT ![m] = "committed"]
  /\ UNCHANGED <<files, root, moving, cacheVars, readerVars>>

UpdateConfig ==
  /\ moving = "rest" /\ root < MaxMoves
  /\ root' = root + 1
  /\ moving' = "committed"
  /\ UNCHANGED <<files, rows, writing, cacheVars, readerVars>>

(* One step of invalidateLibraryDownloadsCache on the way from `from` to   *)
(* `to`, for whoever is there.                                             *)
Advance(from, to) ==
  \/ /\ moving = from /\ moving' = to
     /\ UNCHANGED writing
  \/ /\ \E m \in Shot : writing[m] = from /\ writing' = [writing EXCEPT ![m] = to]
     /\ UNCHANGED moving

AddGeneration ==
  /\ Advance("committed", "counted")
  /\ generation' = generation + 1
  /\ UNCHANGED <<storeVars, list, snapshot, readerVars>>

ClearList ==
  /\ Advance("counted", "rest")
  /\ list' = NoIndex
  /\ UNCHANGED <<storeVars, generation, snapshot, readerVars>>
-----------------------------------------------------------------------------
(* Readers.                                                                *)
GoTo(r, next) == step' = [step EXCEPT ![r] = next]
Learn(r, news) == index' = [index EXCEPT ![r] = news]

Ask(r, k) ==
  /\ step[r] = "rest"
  /\ kind' = [kind EXCEPT ![r] = k]
  /\ promised' = [promised EXCEPT ![r] =
       [rows |-> {m \in Shot : writing[m] = "rest"},
        dir |-> IF moving = "rest" THEN root ELSE root - 1]]
  /\ GoTo(r, "peek")
  /\ UNCHANGED <<storeVars, writerVars, cacheVars, buildMu, index>>

(* Before and after the wait for the build lock the reader looks for an    *)
(* index, which may be there and too old.  A snapshot counts only with the *)
(* generation the reader has loaded; it loads that just before it looks.   *)
Usable(r) ==
  IF kind[r] = "list"
  THEN list # NoIndex
  ELSE snapshot # NoIndex /\ snapshot.gen = generation

Find(r) ==
  /\ step[r] \in {"peek", "recheck"} /\ Usable(r)
  /\ Learn(r, IF kind[r] = "list" THEN list ELSE snapshot)
  /\ GoTo(r, IF kind[r] = "list" THEN "answer" ELSE "query")
  /\ buildMu' = buildMu \ {r}
  /\ UNCHANGED <<storeVars, writerVars, cacheVars, kind, promised>>

(* A reader that finds nothing waits for the build lock and looks again.   *)
(* Mutant: it does not wait.                                               *)
MutLockBuild(r) ==
  /\ step[r] = "peek"
  /\ buildMu' = buildMu \cup {r}
  /\ GoTo(r, "recheck")
  /\ UNCHANGED <<storeVars, writerVars, cacheVars, kind, index, promised>>

LockBuild(r) ==
  /\ step[r] = "peek" /\ buildMu = {}
  /\ buildMu' = {r}
  /\ GoTo(r, "recheck")
  /\ UNCHANGED <<storeVars, writerVars, cacheVars, kind, index, promised>>

LoadGeneration(r) ==
  /\ step[r] = "recheck"
  /\ Learn(r, [Nothing EXCEPT !.gen = generation])
  /\ GoTo(r, "rows")
  /\ UNCHANGED <<storeVars, writerVars, cacheVars, buildMu, kind, promised>>

(* One query: the newest records for a list, all recorded paths for a      *)
(* snapshot, which counts them.                                            *)
ReadRows(r) ==
  /\ step[r] = "rows"
  /\ Learn(r, IF kind[r] = "list" THEN [index[r] EXCEPT !.rows = rows]
                                 ELSE [index[r] EXCEPT !.known = rows])
  /\ GoTo(r, "config")
  /\ UNCHANGED <<storeVars, writerVars, cacheVars, buildMu, kind, promised>>

ReadConfig(r) ==
  /\ step[r] = "config"
  /\ Learn(r, [index[r] EXCEPT !.dir = root])
  /\ GoTo(r, IF kind[r] = "list" THEN "known" ELSE "walk")
  /\ UNCHANGED <<storeVars, writerVars, cacheVars, buildMu, kind, promised>>

(* The list reads the recorded paths in a query of its own.                *)
ReadKnown(r) ==
  /\ step[r] = "known"
  /\ Learn(r, [index[r] EXCEPT !.known = rows])
  /\ GoTo(r, "walk")
  /\ UNCHANGED <<storeVars, writerVars, cacheVars, buildMu, kind, promised>>

WalkDirectory(r) ==
  /\ step[r] = "walk"
  /\ Learn(r, [index[r] EXCEPT !.orphans = files[index[r].dir] \ index[r].known])
  /\ GoTo(r, "store")
  /\ UNCHANGED <<storeVars, writerVars, cacheVars, buildMu, kind, promised>>

(* Mutant: the list is stored whatever happened since its first query.     *)
MutStoreList(r) ==
  /\ step[r] = "store" /\ kind[r] = "list"
  /\ list' = index[r]
  /\ GoTo(r, "answer")
  /\ buildMu' = {}
  /\ UNCHANGED <<storeVars, writerVars, generation, snapshot, kind, index, promised>>

StoreList(r) ==
  /\ step[r] = "store" /\ kind[r] = "list"
  /\ list' = IF generation = index[r].gen THEN index[r] ELSE list
  /\ GoTo(r, "answer")
  /\ buildMu' = {}
  /\ UNCHANGED <<storeVars, writerVars, generation, snapshot, kind, index, promised>>

StoreSnapshot(r) ==
  /\ step[r] = "store" /\ kind[r] = "page"
  /\ snapshot' = index[r]
  /\ GoTo(r, "query")
  /\ buildMu' = {}
  /\ UNCHANGED <<storeVars, writerVars, generation, list, kind, index, promised>>

(* A page takes its rows from the database; the counts and the files       *)
(* without a row are the snapshot's.                                       *)
QueryEntries(r) ==
  /\ step[r] = "query"
  /\ Learn(r, [index[r] EXCEPT !.rows = rows])
  /\ GoTo(r, "answer")
  /\ UNCHANGED <<storeVars, writerVars, cacheVars, buildMu, kind, promised>>

(* The answer goes out, or a query fails, or the browser has gone.         *)
EndRead(r) ==
  /\ step[r] # "rest"
  /\ kind' = [kind EXCEPT ![r] = "list"]
  /\ Learn(r, Nothing)
  /\ promised' = [promised EXCEPT ![r] = NoPromise]
  /\ GoTo(r, "rest")
  /\ buildMu' = buildMu \ {r}
  /\ UNCHANGED <<storeVars, writerVars, cacheVars>>

LibraryNext ==
  \/ \E m \in Shot : PublishFile(m) \/ RecordFile(m)
  \/ UpdateConfig \/ AddGeneration \/ ClearList
  \/ \E r \in Reader :
       \/ \E k \in {"list", "page"} : Ask(r, k)
       \/ Find(r) \/ LockBuild(r) \/ LoadGeneration(r)
       \/ ReadRows(r) \/ ReadConfig(r) \/ ReadKnown(r) \/ WalkDirectory(r)
       \/ StoreList(r) \/ StoreSnapshot(r) \/ QueryEntries(r) \/ EndRead(r)

LibrarySpec == LibraryInit /\ [][LibraryNext]_libraryVars
-----------------------------------------------------------------------------
Generations == 0..(Cardinality(Shot) + MaxMoves)
Index == [rows : SUBSET Shot, known : SUBSET Shot, orphans : SUBSET Shot,
          dir : Dir, gen : Generations]
Writing == {"committed", "counted", "rest"}

(* The values the variables take.                                          *)
LibraryTypeOK ==
  /\ files \in [Dir -> SUBSET Shot] /\ rows \subseteq Shot /\ root \in Dir
  /\ writing \in [Shot -> {"new", "published"} \cup Writing] /\ moving \in Writing
  /\ generation \in Generations
  /\ list \in Index \cup {NoIndex} /\ snapshot \in Index \cup {NoIndex}
  /\ buildMu \subseteq Reader /\ Cardinality(buildMu) <= 1
  /\ step \in [Reader -> {"rest", "peek", "recheck", "rows", "config", "known", "walk",
                           "store", "query", "answer"}]
  /\ kind \in [Reader -> {"list", "page"}]
  /\ index \in [Reader -> Index]
  /\ promised \in [Reader -> [rows : SUBSET Shot, dir : Dir]]

(* Who asks for the library after a save or a change of the download       *)
(* directory has returned sees it, listed and counted, in a cached list or *)
(* snapshot as well as in a new one, though an index is read in several    *)
(* queries while writers go on.                                            *)
ListingCurrent ==
  \A r \in Reader : step[r] = "answer" =>
    /\ promised[r].rows \subseteq index[r].rows \cap index[r].known
    /\ promised[r].dir <= index[r].dir
=============================================================================
