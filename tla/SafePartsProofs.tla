-------------------------- MODULE SafePartsProofs --------------------------
(***************************************************************************)
(* What the HTTP server shows.  The library is never older than what was   *)
(* saved and configured before it was asked for, for any number of readers,*)
(* saves and changes of the directory.  A poster is fetched by one request *)
(* at a time, which tells all that wait for it.  An event published after a*)
(* password change is never written to a stream opened before it, and no   *)
(* channel is closed twice or sent to when it is closed, for any number of *)
(* requests and changes and any size of the buffers.                       *)
(*                                                                         *)
(* The directory of a user.  When a job starts to save, the recorded files *)
(* are where their rows say and the list's link leads to the directory in  *)
(* use: for any titles, files, changes of the title, and steps that fail   *)
(* or end in a crash.                                                      *)
(***************************************************************************)
EXTENDS MCSafeParts, MediaArchiveProofs, FiniteSetTheorems, SequenceTheorems


(* What returned to its caller, and what the generation counts.            *)
SavedRows == {m \in Shot : writing[m] = "rest"}
SavedDir == IF moving = "rest" THEN root ELSE root - 1
CountedRows == {m \in Shot : writing[m] \in {"counted", "rest"}}
CountedDir == IF moving = "committed" THEN root - 1 ELSE root

AnyIndex == [rows : SUBSET Shot, known : SUBSET Shot, orphans : SUBSET Shot, dir : Dir, gen : Nat]

(* The types that matter; the bound of the generation does not.            *)
Types ==
  /\ files \in [Dir -> SUBSET Shot] /\ rows \subseteq Shot /\ root \in Dir
  /\ writing \in [Shot -> {"new", "published"} \cup Writing] /\ moving \in Writing
  /\ generation \in Nat
  /\ list \in AnyIndex \cup {NoIndex} /\ snapshot \in AnyIndex \cup {NoIndex}
  /\ step \in [Reader -> {"rest", "peek", "recheck", "rows", "config", "known", "walk",
                           "store", "query", "answer"}]
  /\ kind \in [Reader -> {"list", "page"}]
  /\ index \in [Reader -> AnyIndex]
  /\ promised \in [Reader -> [rows : SUBSET Shot, dir : Int]]

(* What counts is committed.                                               *)
Committed ==
  /\ rows = {m \in Shot : writing[m] \in Writing}
  /\ moving # "rest" => root > 0

(* Which parts of its index a reader has read.                             *)
HasRows(r) == step[r] \in IF kind[r] = "list" THEN {"config", "known", "walk", "store", "answer"}
                                              ELSE {"answer"}
HasKnown(r) == step[r] \in IF kind[r] = "list" THEN {"walk", "store", "answer"}
                                               ELSE {"config", "walk", "store", "query", "answer"}
HasDir(r) == step[r] \in IF kind[r] = "list" THEN {"known", "walk", "store", "answer"}
                                             ELSE {"walk", "store", "query", "answer"}

(* What a reader has read is no older than its promise; if it builds for   *)
(* the current generation it has all that this counts.                     *)
Building(r) == step[r] \in {"config", "known", "walk", "store"} /\ index[r].gen = generation

ReaderOK(r) ==
  /\ step[r] = "known" => kind[r] = "list"
  /\ step[r] = "query" => kind[r] = "page"
  /\ index[r].gen <= generation
  /\ promised[r].rows \subseteq SavedRows /\ promised[r].dir <= SavedDir
  /\ HasRows(r) => promised[r].rows \subseteq index[r].rows
  /\ HasKnown(r) => promised[r].rows \subseteq index[r].known
  /\ HasDir(r) => promised[r].dir <= index[r].dir
  /\ Building(r) /\ kind[r] = "list" => CountedRows \subseteq index[r].rows
  /\ Building(r) /\ HasKnown(r) => CountedRows \subseteq index[r].known
  /\ Building(r) /\ HasDir(r) => CountedDir <= index[r].dir

(* The cached list has what returned; the snapshot, while its generation   *)
(* lasts, what is counted.                                                 *)
ListOK == list # NoIndex =>
  /\ list.gen <= generation
  /\ SavedRows \subseteq list.rows \cap list.known /\ SavedDir <= list.dir
SnapshotOK == snapshot # NoIndex =>
  /\ snapshot.gen <= generation
  /\ snapshot.gen = generation => CountedRows \subseteq snapshot.known /\ CountedDir <= snapshot.dir

ListingInv == Types /\ Committed /\ ListOK /\ SnapshotOK /\ \A r \in Reader : ReaderOK(r)

-----------------------------------------------------------------------------
LEMMA DirIsInt == Dir \subseteq Int
BY LibraryAssumption DEF Dir

LEMMA InitListingInv == LibraryInit => ListingInv
BY LibraryAssumption
   DEF LibraryInit, ListingInv, Types, Committed, ListOK, SnapshotOK, ReaderOK, HasRows,
       HasKnown, HasDir, Building, SavedRows, SavedDir, CountedRows, CountedDir, AnyIndex,
       Nothing, NoPromise, Writing, Dir

(* What is saved is counted, and what is counted is there to read.         *)
LEMMA SavedIsCounted ==
  ASSUME ListingInv
  PROVE  /\ SavedRows \subseteq CountedRows /\ CountedRows \subseteq rows
         /\ SavedDir <= CountedDir /\ CountedDir <= root
         /\ {SavedDir, CountedDir, root} \subseteq Int
BY LibraryAssumption
   DEF ListingInv, Types, Committed, SavedRows, CountedRows, SavedDir, CountedDir, Writing, Dir

-----------------------------------------------------------------------------
(* Writers.                                                                *)
LEMMA PublishFileListingInv == ASSUME ListingInv, NEW m \in Shot, PublishFile(m) PROVE ListingInv'
BY DEF PublishFile, ListingInv, Types, Committed, ListOK, SnapshotOK, ReaderOK, HasRows,
       HasKnown, HasDir, Building, SavedRows, SavedDir, CountedRows, CountedDir, Writing,
       cacheVars, readerVars

LEMMA RecordFileListingInv == ASSUME ListingInv, NEW m \in Shot, RecordFile(m) PROVE ListingInv'
BY DEF RecordFile, ListingInv, Types, Committed, ListOK, SnapshotOK, ReaderOK, HasRows,
       HasKnown, HasDir, Building, SavedRows, SavedDir, CountedRows, CountedDir, Writing,
       cacheVars, readerVars

LEMMA UpdateConfigListingInv == ASSUME ListingInv, UpdateConfig PROVE ListingInv'
BY LibraryAssumption
   DEF UpdateConfig, ListingInv, Types, Committed, ListOK, SnapshotOK, ReaderOK, HasRows,
       HasKnown, HasDir, Building, SavedRows, SavedDir, CountedRows, CountedDir, Writing, Dir,
       cacheVars, readerVars

LEMMA AddGenerationListingInv == ASSUME ListingInv, AddGeneration PROVE ListingInv'
<1>1. generation' = generation + 1 /\ UNCHANGED <<storeVars, list, snapshot, readerVars>>
  BY DEF AddGeneration
<1>2. CASE moving = "committed" /\ moving' = "counted" /\ UNCHANGED writing
  BY <1>1, <1>2
     DEF ListingInv, Types, Committed, ListOK, SnapshotOK, ReaderOK, HasRows, HasKnown,
         HasDir, Building, SavedRows, SavedDir, AnyIndex, Writing, storeVars, readerVars
<1>3. CASE UNCHANGED moving /\ \E m \in Shot :
             writing[m] = "committed" /\ writing' = [writing EXCEPT ![m] = "counted"]
  BY <1>1, <1>3
     DEF ListingInv, Types, Committed, ListOK, SnapshotOK, ReaderOK, HasRows, HasKnown,
         HasDir, Building, SavedRows, SavedDir, AnyIndex, Writing, storeVars, readerVars
<1>4. QED
  BY <1>2, <1>3 DEF AddGeneration, Advance

LEMMA ClearListListingInv == ASSUME ListingInv, ClearList PROVE ListingInv'
<1>1. list' = NoIndex /\ UNCHANGED <<storeVars, generation, snapshot, readerVars>>
  BY DEF ClearList
<1>2. CASE moving = "counted" /\ moving' = "rest" /\ UNCHANGED writing
  BY <1>1, <1>2, LibraryAssumption
     DEF ListingInv, Types, Committed, ListOK, SnapshotOK, ReaderOK, HasRows, HasKnown,
         HasDir, Building, SavedRows, SavedDir, CountedRows, CountedDir, Writing, Dir, storeVars,
         readerVars
<1>3. CASE UNCHANGED moving /\ \E m \in Shot :
             writing[m] = "counted" /\ writing' = [writing EXCEPT ![m] = "rest"]
  BY <1>1, <1>3
     DEF ListingInv, Types, Committed, ListOK, SnapshotOK, ReaderOK, HasRows, HasKnown,
         HasDir, Building, SavedRows, SavedDir, CountedRows, CountedDir, Writing, storeVars,
         readerVars
<1>4. QED
  BY <1>2, <1>3 DEF ClearList, Advance

-----------------------------------------------------------------------------
(* Readers: a step of one leaves the rows, the writers and the other       *)
(* readers alone.                                                          *)
LEMMA ReaderStep ==
  ASSUME ListingInv, NEW r \in Reader, UNCHANGED <<storeVars, writerVars, generation>>,
         \A q \in Reader \ {r} : UNCHANGED <<step[q], kind[q], index[q], promised[q]>>,
         Types', ListOK', SnapshotOK', ReaderOK(r)'
  PROVE  ListingInv'
<1>1. ASSUME NEW q \in Reader \ {r} PROVE ReaderOK(q)'
  BY DEF ListingInv, ReaderOK, HasRows, HasKnown, HasDir, Building, SavedRows, SavedDir, CountedRows,
         CountedDir, storeVars, writerVars
<1>2. Committed'
  BY DEF ListingInv, Committed, storeVars, writerVars
<1>3. QED
  BY <1>1, <1>2 DEF ListingInv

(* A step that leaves the caches alone, too.                               *)
LEMMA QuietStep ==
  ASSUME ListingInv, NEW r \in Reader, UNCHANGED <<storeVars, writerVars, cacheVars>>,
         \A q \in Reader \ {r} : UNCHANGED <<step[q], kind[q], index[q], promised[q]>>,
         Types', ReaderOK(r)'
  PROVE  ListingInv'
<1>1. ListOK' /\ SnapshotOK'
  BY DEF ListingInv, ListOK, SnapshotOK, SavedRows, SavedDir, CountedRows, CountedDir, storeVars,
         writerVars, cacheVars
<1>2. QED
  BY <1>1, ReaderStep DEF cacheVars

(* What the promises and the caches are measured by.                       *)
LEMMA SameMeasure ==
  ASSUME UNCHANGED <<storeVars, writerVars>>
  PROVE  UNCHANGED <<rows, root, SavedRows, SavedDir, CountedRows, CountedDir>>
BY DEF SavedRows, SavedDir, CountedRows, CountedDir, storeVars, writerVars

LEMMA AskListingInv ==
  ASSUME ListingInv, NEW r \in Reader, NEW k \in {"list", "page"}, Ask(r, k) PROVE ListingInv'
<1>1. promised'[r].rows = SavedRows /\ promised'[r].dir = SavedDir /\ SavedDir \in Int
  BY SavedIsCounted DEF Ask, ListingInv, Types, SavedRows, SavedDir
<1>2. Types' /\ \A q \in Reader \ {r} : UNCHANGED <<step[q], kind[q], index[q], promised[q]>>
  BY SavedIsCounted DEF Ask, GoTo, ListingInv, Types, SavedDir, storeVars, writerVars, cacheVars
<1>3. ReaderOK(r)'
  BY <1>1 DEF Ask, GoTo, ListingInv, Types, ReaderOK, HasRows, HasKnown, HasDir, Building, SavedRows,
              SavedDir, storeVars, writerVars, cacheVars
<1>4. QED
  BY <1>2, <1>3, QuietStep DEF Ask

LEMMA FindListingInv == ASSUME ListingInv, NEW r \in Reader, Find(r) PROVE ListingInv'
<1> DEFINE found == IF kind[r] = "list" THEN list ELSE snapshot
<1>1. /\ found \in AnyIndex /\ found.gen \in Nat /\ index'[r] = found
      /\ SavedRows \subseteq found.known /\ SavedDir <= found.dir
      /\ kind[r] = "list" => SavedRows \subseteq found.rows
  BY SavedIsCounted
     DEF Find, Usable, Learn, ListingInv, Types, ListOK, SnapshotOK, AnyIndex, Dir
<1>2. Types' /\ \A q \in Reader \ {r} : UNCHANGED <<step[q], kind[q], index[q], promised[q]>>
  BY <1>1 DEF Find, Learn, GoTo, ListingInv, Types, storeVars, writerVars, cacheVars
<1>3. found.gen <= generation
  BY DEF Find, Usable, ListingInv, ListOK, SnapshotOK
<1>4. /\ kind'[r] = kind[r] /\ promised'[r] = promised[r] /\ generation' = generation
      /\ kind[r] = "list" => step'[r] = "answer"
      /\ kind[r] # "list" => step'[r] = "query"
  BY DEF Find, GoTo, ListingInv, Types, cacheVars
<1>5. /\ promised[r].rows \subseteq SavedRows /\ promised[r].dir \in Int
      /\ promised[r].dir <= SavedDir /\ found.dir \in Int /\ kind[r] \in {"list", "page"}
  BY <1>1, DirIsInt DEF ListingInv, Types, ReaderOK, AnyIndex
<1>6. SavedRows' = SavedRows /\ SavedDir' = SavedDir
  BY SameMeasure DEF Find
<1>7. ReaderOK(r)'
  BY <1>1, <1>3, <1>4, <1>5, <1>6, SavedIsCounted
     DEF ReaderOK, HasRows, HasKnown, HasDir, Building
<1>8. QED
  BY <1>2, <1>7, QuietStep DEF Find

LEMMA LockBuildListingInv == ASSUME ListingInv, NEW r \in Reader, LockBuild(r) PROVE ListingInv'
<1>1. Types' /\ \A q \in Reader \ {r} : UNCHANGED <<step[q], kind[q], index[q], promised[q]>>
  BY DirIsInt, LibraryAssumption DEF LockBuild, GoTo, ListingInv, Types, AnyIndex, storeVars, writerVars, cacheVars
<1>2. ReaderOK(r)'
  BY SavedIsCounted, LibraryAssumption
     DEF LockBuild, GoTo, ListingInv, Types, ReaderOK, HasRows, HasKnown, HasDir, Building, SavedRows,
         SavedDir, CountedRows, CountedDir, AnyIndex, storeVars, writerVars, cacheVars
<1>3. QED
  BY <1>1, <1>2, QuietStep DEF LockBuild

LEMMA LoadGenerationListingInv == ASSUME ListingInv, NEW r \in Reader, LoadGeneration(r) PROVE ListingInv'
<1>1. /\ index'[r] \in AnyIndex /\ index'[r].gen = generation /\ index'[r].dir = 0
      /\ index'[r].rows = {} /\ index'[r].known = {}
  <2>1. index'[r] = [rows |-> {}, known |-> {}, orphans |-> {}, dir |-> 0, gen |-> generation]
    BY DEF LoadGeneration, Learn, ListingInv, Types, Nothing
  <2>2. 0 \in Dir /\ generation \in Nat
    BY LibraryAssumption DEF ListingInv, Types, Dir
  <2> QED
    BY <2>1, <2>2 DEF AnyIndex
<1>2. Types' /\ \A q \in Reader \ {r} : UNCHANGED <<step[q], kind[q], index[q], promised[q]>>
  BY <1>1 DEF LoadGeneration, Learn, GoTo, ListingInv, Types, storeVars, writerVars, cacheVars
<1>3. ReaderOK(r)'
  BY <1>1, SavedIsCounted
     DEF LoadGeneration, GoTo, ListingInv, Types, ReaderOK, HasRows, HasKnown, HasDir, Building, SavedRows,
         SavedDir, CountedRows, CountedDir, storeVars, writerVars, cacheVars
<1>4. QED
  BY <1>2, <1>3, QuietStep DEF LoadGeneration

LEMMA ReadRowsListingInv == ASSUME ListingInv, NEW r \in Reader, ReadRows(r) PROVE ListingInv'
<1>1. index'[r] \in AnyIndex /\ index'[r].gen = index[r].gen /\ index'[r].dir = index[r].dir
  BY DEF ReadRows, Learn, ListingInv, Types, AnyIndex
<1>2. kind[r] = "list" => index'[r].rows = rows
  BY DEF ReadRows, Learn, ListingInv, Types, AnyIndex
<1>3. kind[r] = "page" => index'[r].known = rows
  BY DEF ReadRows, Learn, ListingInv, Types, AnyIndex
<1>4. Types' /\ \A q \in Reader \ {r} : UNCHANGED <<step[q], kind[q], index[q], promised[q]>>
  BY <1>1 DEF ReadRows, Learn, GoTo, ListingInv, Types, storeVars, writerVars, cacheVars
<1>5. ReaderOK(r)'
  BY <1>1, <1>2, <1>3, SavedIsCounted
     DEF ReadRows, GoTo, ListingInv, Types, ReaderOK, HasRows, HasKnown, HasDir, Building, SavedRows,
         SavedDir, CountedRows, CountedDir, storeVars, writerVars, cacheVars
<1>6. QED
  BY <1>4, <1>5, QuietStep DEF ReadRows

LEMMA ReadConfigListingInv == ASSUME ListingInv, NEW r \in Reader, ReadConfig(r) PROVE ListingInv'
<1>1. /\ index'[r] \in AnyIndex /\ index'[r].gen = index[r].gen /\ index'[r].dir = root
      /\ index'[r].rows = index[r].rows /\ index'[r].known = index[r].known
  BY LibraryAssumption DEF ReadConfig, Learn, ListingInv, Types, AnyIndex
<1>2. Types' /\ \A q \in Reader \ {r} : UNCHANGED <<step[q], kind[q], index[q], promised[q]>>
  BY <1>1 DEF ReadConfig, Learn, GoTo, ListingInv, Types, storeVars, writerVars, cacheVars
<1>3. /\ step[r] = "config" /\ step'[r] = IF kind[r] = "list" THEN "known" ELSE "walk"
      /\ kind'[r] = kind[r] /\ promised'[r] = promised[r] /\ generation' = generation
  BY DEF ReadConfig, GoTo, ListingInv, Types, cacheVars
<1>4. ReaderOK(r) /\ kind[r] \in {"list", "page"} /\ promised[r].dir \in Int
  BY DEF ListingInv, Types
<1>5. UNCHANGED <<SavedRows, SavedDir, CountedRows, CountedDir>>
  BY SameMeasure DEF ReadConfig
<1>6. ReaderOK(r)'
  BY <1>1, <1>3, <1>4, <1>5, SavedIsCounted DEF ReaderOK, HasRows, HasKnown, HasDir, Building
<1>7. QED
  BY <1>2, <1>6, QuietStep DEF ReadConfig

LEMMA ReadKnownListingInv == ASSUME ListingInv, NEW r \in Reader, ReadKnown(r) PROVE ListingInv'
<1>1. /\ index'[r] \in AnyIndex /\ index'[r].gen = index[r].gen /\ index'[r].dir = index[r].dir
      /\ index'[r].rows = index[r].rows /\ index'[r].known = rows
  BY LibraryAssumption DEF ReadKnown, Learn, ListingInv, Types, AnyIndex
<1>2. Types' /\ \A q \in Reader \ {r} : UNCHANGED <<step[q], kind[q], index[q], promised[q]>>
  BY <1>1 DEF ReadKnown, Learn, GoTo, ListingInv, Types, storeVars, writerVars, cacheVars
<1>3. /\ step[r] = "known" /\ step'[r] = "walk" /\ kind'[r] = kind[r]
      /\ promised'[r] = promised[r] /\ generation' = generation
  BY DEF ReadKnown, GoTo, ListingInv, Types, cacheVars
<1>4. ReaderOK(r) /\ kind[r] \in {"list", "page"}
  BY DEF ListingInv, Types
<1>5. UNCHANGED <<SavedRows, SavedDir, CountedRows, CountedDir>>
  BY SameMeasure DEF ReadKnown
<1>6. ReaderOK(r)'
  BY <1>1, <1>3, <1>4, <1>5, SavedIsCounted DEF ReaderOK, HasRows, HasKnown, HasDir, Building
<1>7. QED
  BY <1>2, <1>6, QuietStep DEF ReadKnown

LEMMA WalkDirectoryListingInv == ASSUME ListingInv, NEW r \in Reader, WalkDirectory(r) PROVE ListingInv'
<1>1. /\ index'[r] \in AnyIndex /\ index'[r].gen = index[r].gen /\ index'[r].dir = index[r].dir
      /\ index'[r].rows = index[r].rows /\ index'[r].known = index[r].known
  BY LibraryAssumption DEF WalkDirectory, Learn, ListingInv, Types, AnyIndex
<1>2. Types' /\ \A q \in Reader \ {r} : UNCHANGED <<step[q], kind[q], index[q], promised[q]>>
  BY <1>1 DEF WalkDirectory, Learn, GoTo, ListingInv, Types, storeVars, writerVars, cacheVars
<1>3. ReaderOK(r)'
  BY <1>1, SavedIsCounted
     DEF WalkDirectory, GoTo, ListingInv, Types, ReaderOK, HasRows, HasKnown, HasDir, Building, SavedRows,
         SavedDir, CountedRows, CountedDir, storeVars, writerVars, cacheVars
<1>4. QED
  BY <1>2, <1>3, QuietStep DEF WalkDirectory

LEMMA QueryEntriesListingInv == ASSUME ListingInv, NEW r \in Reader, QueryEntries(r) PROVE ListingInv'
<1>1. /\ index'[r] \in AnyIndex /\ index'[r].gen = index[r].gen /\ index'[r].dir = index[r].dir
      /\ index'[r].rows = rows /\ index'[r].known = index[r].known
  BY LibraryAssumption DEF QueryEntries, Learn, ListingInv, Types, AnyIndex
<1>2. Types' /\ \A q \in Reader \ {r} : UNCHANGED <<step[q], kind[q], index[q], promised[q]>>
  BY <1>1 DEF QueryEntries, Learn, GoTo, ListingInv, Types, storeVars, writerVars, cacheVars
<1>3. /\ step[r] = "query" /\ step'[r] = "answer" /\ kind'[r] = kind[r]
      /\ promised'[r] = promised[r] /\ generation' = generation
  BY DEF QueryEntries, GoTo, ListingInv, Types, cacheVars
<1>4. ReaderOK(r) /\ kind[r] \in {"list", "page"}
  BY DEF ListingInv, Types
<1>5. UNCHANGED <<SavedRows, SavedDir, CountedRows, CountedDir>>
  BY SameMeasure DEF QueryEntries
<1>6. ReaderOK(r)'
  BY <1>1, <1>3, <1>4, <1>5, SavedIsCounted DEF ReaderOK, HasRows, HasKnown, HasDir, Building
<1>7. QED
  BY <1>2, <1>6, QuietStep DEF QueryEntries

LEMMA EndReadListingInv == ASSUME ListingInv, NEW r \in Reader, EndRead(r) PROVE ListingInv'
<1>1. /\ index'[r] \in AnyIndex /\ index'[r].gen = 0 /\ index'[r].dir = 0
      /\ index'[r].rows = {} /\ index'[r].known = {}
  BY LibraryAssumption DEF EndRead, Learn, ListingInv, Types, AnyIndex, Nothing, Dir
<1>2. Types' /\ \A q \in Reader \ {r} : UNCHANGED <<step[q], kind[q], index[q], promised[q]>>
  BY <1>1 DEF EndRead, Learn, GoTo, NoPromise, ListingInv, Types, storeVars, writerVars, cacheVars
<1>3. /\ step'[r] = "rest" /\ kind'[r] = "list" /\ promised'[r] = NoPromise
      /\ generation' = generation /\ generation \in Nat
  BY DEF EndRead, GoTo, ListingInv, Types, cacheVars
<1>4. 0 <= SavedDir'
  <2>1. 0 <= SavedDir
    BY LibraryAssumption DEF ListingInv, Types, Committed, SavedDir, Dir
  <2> QED
    BY <2>1, SameMeasure DEF EndRead
<1>5. ReaderOK(r)'
  BY <1>1, <1>3, <1>4 DEF ReaderOK, HasRows, HasKnown, HasDir, Building, NoPromise
<1>6. QED
  BY <1>2, <1>5, QuietStep DEF EndRead

LEMMA StoreListListingInv == ASSUME ListingInv, NEW r \in Reader, StoreList(r) PROVE ListingInv'
<1>1. Types' /\ \A q \in Reader \ {r} : UNCHANGED <<step[q], kind[q], index[q], promised[q]>>
  BY DEF StoreList, GoTo, ListingInv, Types, storeVars, writerVars
<1>2. ListOK'
  BY SavedIsCounted
     DEF StoreList, ListingInv, Types, ListOK, ReaderOK, HasKnown, HasDir, Building, SavedRows, SavedDir,
         AnyIndex, Dir, storeVars, writerVars
<1>3. SnapshotOK'
  BY DEF StoreList, ListingInv, SnapshotOK, CountedRows, CountedDir, storeVars, writerVars
<1>4. ReaderOK(r)'
  BY DEF StoreList, GoTo, ListingInv, Types, ReaderOK, HasRows, HasKnown, HasDir, Building, SavedRows,
         SavedDir, storeVars, writerVars
<1>5. QED
  BY <1>1, <1>2, <1>3, <1>4, ReaderStep DEF StoreList

LEMMA StoreSnapshotListingInv == ASSUME ListingInv, NEW r \in Reader, StoreSnapshot(r) PROVE ListingInv'
<1>1. Types' /\ \A q \in Reader \ {r} : UNCHANGED <<step[q], kind[q], index[q], promised[q]>>
  BY DEF StoreSnapshot, GoTo, ListingInv, Types, storeVars, writerVars
<1>2. SnapshotOK'
  BY DEF StoreSnapshot, ListingInv, Types, SnapshotOK, ReaderOK, HasKnown, HasDir, Building,
         CountedRows, CountedDir, storeVars, writerVars
<1>3. ListOK'
  BY DEF StoreSnapshot, ListingInv, ListOK, SavedRows, SavedDir, storeVars, writerVars
<1>4. ReaderOK(r)'
  BY DEF StoreSnapshot, GoTo, ListingInv, Types, ReaderOK, HasRows, HasKnown, HasDir, Building,
         SavedRows, SavedDir, storeVars, writerVars
<1>5. QED
  BY <1>1, <1>2, <1>3, <1>4, ReaderStep DEF StoreSnapshot

LEMMA StepListingInv == ListingInv /\ [LibraryNext]_libraryVars => ListingInv'
<1> SUFFICES ASSUME ListingInv, [LibraryNext]_libraryVars PROVE ListingInv'
  OBVIOUS
<1>1. CASE UNCHANGED libraryVars
  BY <1>1 DEF ListingInv, Types, Committed, ListOK, SnapshotOK, ReaderOK, HasRows, HasKnown,
              HasDir, Building, SavedRows, SavedDir, CountedRows, CountedDir, libraryVars,
              storeVars, writerVars, cacheVars, readerVars
<1>2. CASE LibraryNext
  BY <1>2, PublishFileListingInv, RecordFileListingInv, UpdateConfigListingInv, AddGenerationListingInv, ClearListListingInv,
     AskListingInv, FindListingInv, LockBuildListingInv, LoadGenerationListingInv, ReadRowsListingInv, ReadConfigListingInv,
     ReadKnownListingInv, WalkDirectoryListingInv, StoreListListingInv, StoreSnapshotListingInv, QueryEntriesListingInv,
     EndReadListingInv
     DEF LibraryNext
<1>3. QED
  BY <1>1, <1>2

-----------------------------------------------------------------------------
(* Who asks for the library after a save or a change of the download       *)
(* directory has returned sees it, from a cache or not.                    *)
THEOREM ListingCorrect == LibrarySpec => []ListingCurrent
<1>1. ListingInv => ListingCurrent
  BY DEF ListingInv, Types, ReaderOK, HasRows, HasKnown, HasDir, ListingCurrent
<1> QED
  BY <1>1, InitListingInv, StepListingInv, PTL DEF LibrarySpec

(* Every invalidation counts once.                                         *)
Counting == generation = Cardinality(CountedRows) + CountedDir

(* One reader at a time builds an index, and it has the lock.              *)
AtBuild == {"recheck", "rows", "config", "known", "walk", "store"}
OneBuilder ==
  /\ \A r \in Reader : step[r] \in AtBuild => buildMu = {r}
  /\ \A r \in buildMu : r \in Reader /\ step[r] \in AtBuild
  /\ Cardinality(buildMu) <= 1

LibraryTypes == Counting /\ OneBuilder /\ \A r \in Reader : promised[r].dir \in Dir

LEMMA InitLibraryTypes == LibraryInit => LibraryTypes
<1> SUFFICES ASSUME LibraryInit PROVE LibraryTypes
  OBVIOUS
<1>1. CountedRows = {} /\ CountedDir = 0
  BY DEF LibraryInit, CountedRows, CountedDir
<1>2. Counting
  BY <1>1, FS_EmptySet DEF Counting, LibraryInit
<1>3. OneBuilder
  BY FS_EmptySet DEF OneBuilder, AtBuild, LibraryInit
<1> QED BY <1>2, <1>3, LibraryAssumption DEF LibraryTypes, LibraryInit, NoPromise, Dir

LEMMA FiniteCounted == IsFiniteSet(CountedRows) /\ Cardinality(CountedRows) \in 0..Cardinality(Shot)
<1>1. CountedRows \in SUBSET Shot
  BY DEF CountedRows
<1> QED BY <1>1, ShotAssumption, FS_Subset, FS_CardinalityType

LEMMA CountingKept ==
  ASSUME ListingInv, Counting, [LibraryNext]_libraryVars
  PROVE  Counting'
<1>1. ASSUME UNCHANGED <<writing, moving, root, generation>> PROVE Counting'
  BY <1>1 DEF Counting, CountedRows, CountedDir
<1>2. ASSUME NEW m \in Shot, PublishFile(m) \/ RecordFile(m) PROVE Counting'
  <2>1. CountedRows' = CountedRows
    BY <1>2 DEF PublishFile, RecordFile, CountedRows, ListingInv, Types
  <2> QED BY <1>2, <2>1 DEF PublishFile, RecordFile, Counting, CountedDir, cacheVars
<1>3. CASE UpdateConfig
  <2>1. CountedRows' = CountedRows /\ CountedDir' = CountedDir
    BY <1>3, LibraryAssumption DEF UpdateConfig, CountedRows, CountedDir, ListingInv, Types, Dir
  <2> QED BY <1>3, <2>1 DEF UpdateConfig, Counting, cacheVars
<1>4. CASE AddGeneration
  <2>1. generation' = generation + 1 /\ UNCHANGED root
    BY <1>4 DEF AddGeneration, storeVars
  <2>2. Cardinality(CountedRows) \in Nat /\ CountedDir \in Int
    BY FiniteCounted, SavedIsCounted
  <2>3. CASE moving = "committed" /\ moving' = "counted" /\ UNCHANGED writing
    <3>1. CountedRows' = CountedRows
      BY <2>3 DEF CountedRows
    <3>2. CountedDir' = CountedDir + 1
      BY <2>1, <2>3, LibraryAssumption DEF CountedDir, ListingInv, Types, Dir
    <3> QED BY <2>1, <2>2, <3>1, <3>2 DEF Counting
  <2>4. ASSUME UNCHANGED moving, NEW m \in Shot,
               writing[m] = "committed", writing' = [writing EXCEPT ![m] = "counted"]
        PROVE  Counting'
    <3>1. CountedRows' = CountedRows \cup {m} /\ m \notin CountedRows
      BY <2>4 DEF CountedRows, ListingInv, Types
    <3>2. Cardinality(CountedRows') = Cardinality(CountedRows) + 1
      BY <3>1, FiniteCounted, FS_AddElement
    <3>3. CountedDir' = CountedDir
      BY <2>1, <2>4 DEF CountedDir
    <3> QED BY <2>1, <2>2, <3>2, <3>3 DEF Counting
  <2> QED BY <1>4, <2>3, <2>4 DEF AddGeneration, Advance
<1>5. CASE ClearList
  <2>1. CountedRows' = CountedRows /\ CountedDir' = CountedDir
    BY <1>5 DEF ClearList, Advance, CountedRows, CountedDir, storeVars, ListingInv, Types
  <2> QED BY <1>5, <2>1 DEF ClearList, Counting
<1>6. ASSUME NEW r \in Reader, NEW k \in {"list", "page"}, Ask(r, k) PROVE Counting'
  BY <1>1, <1>6 DEF Ask, storeVars, writerVars, cacheVars
<1>7. ASSUME NEW r \in Reader,
             \/ Find(r) \/ LockBuild(r) \/ LoadGeneration(r)
             \/ ReadRows(r) \/ ReadConfig(r) \/ ReadKnown(r) \/ WalkDirectory(r)
             \/ StoreList(r) \/ StoreSnapshot(r) \/ QueryEntries(r) \/ EndRead(r)
      PROVE  Counting'
  BY <1>1, <1>7 DEF Find, LockBuild, LoadGeneration, ReadRows, ReadConfig, ReadKnown, WalkDirectory,
     StoreList, StoreSnapshot, QueryEntries, EndRead, storeVars, writerVars, cacheVars
<1> QED BY <1>1, <1>2, <1>3, <1>4, <1>5, <1>6, <1>7
        DEF LibraryNext, libraryVars, storeVars, writerVars, cacheVars

(* A reader that gets or keeps the lock, and one that gives it back.       *)
LEMMA BuilderMoves ==
  ASSUME ListingInv, OneBuilder, NEW r \in Reader, NEW to, GoTo(r, to),
         \/ to \in AtBuild /\ step[r] \in AtBuild /\ UNCHANGED buildMu
         \/ to \in AtBuild /\ buildMu = {} /\ buildMu' = {r}
         \/ to \notin AtBuild /\ buildMu' = buildMu \ {r}
  PROVE  OneBuilder'
<1>1. /\ step'[r] = to
      /\ \A q \in Reader \ {r} : step'[q] = step[q]
  BY DEF GoTo, ListingInv, Types
<1>2. CASE buildMu' = {r} /\ to \in AtBuild /\ \A q \in Reader \ {r} : step[q] \notin AtBuild
  BY <1>1, <1>2, FS_Singleton DEF OneBuilder
<1>3. CASE to \notin AtBuild /\ buildMu' = buildMu \ {r}
  <2>1. CASE r \in buildMu
    <3>1. buildMu = {r} BY <2>1 DEF OneBuilder
    <3> QED BY <1>1, <1>3, <3>1, FS_EmptySet DEF OneBuilder
  <2>2. CASE r \notin buildMu
    <3>1. buildMu' = buildMu BY <1>3, <2>2
    <3> QED BY <1>1, <1>3, <2>2, <3>1 DEF OneBuilder
  <2> QED BY <2>1, <2>2
<1> QED BY <1>2, <1>3 DEF OneBuilder

LEMMA BuilderKept ==
  ASSUME ListingInv, OneBuilder, [LibraryNext]_libraryVars
  PROVE  OneBuilder'
<1>1. ASSUME UNCHANGED <<buildMu, step>> PROVE OneBuilder'
  BY <1>1 DEF OneBuilder
<1>2. ASSUME NEW m \in Shot, PublishFile(m) \/ RecordFile(m) PROVE OneBuilder'
  BY <1>1, <1>2 DEF PublishFile, RecordFile, readerVars
<1>3. CASE UpdateConfig \/ AddGeneration \/ ClearList
  BY <1>1, <1>3 DEF UpdateConfig, AddGeneration, ClearList, readerVars
<1>4. ASSUME NEW r \in Reader, NEW k \in {"list", "page"}, Ask(r, k) PROVE OneBuilder'
  <2>1. buildMu' = buildMu \ {r} /\ GoTo(r, "peek")
    BY <1>4 DEF Ask, OneBuilder, AtBuild
  <2> QED BY <2>1, BuilderMoves DEF AtBuild
<1>5. ASSUME NEW r \in Reader,
             LoadGeneration(r) \/ ReadRows(r) \/ ReadConfig(r) \/ ReadKnown(r) \/ WalkDirectory(r)
      PROVE  OneBuilder'
  <2>1. PICK to \in AtBuild : GoTo(r, to) /\ step[r] \in AtBuild /\ UNCHANGED buildMu
    BY <1>5 DEF LoadGeneration, ReadRows, ReadConfig, ReadKnown, WalkDirectory, AtBuild
  <2> QED BY <2>1, BuilderMoves
<1>6. ASSUME NEW r \in Reader, LockBuild(r) PROVE OneBuilder'
  BY <1>6, BuilderMoves DEF LockBuild, AtBuild
<1>7. ASSUME NEW r \in Reader,
             Find(r) \/ StoreList(r) \/ StoreSnapshot(r) \/ QueryEntries(r) \/ EndRead(r)
      PROVE  OneBuilder'
  <2>1. buildMu' = buildMu \ {r}
    BY <1>7 DEF Find, StoreList, StoreSnapshot, QueryEntries, EndRead, OneBuilder, AtBuild
  <2>2. PICK to \in {"answer", "query", "rest"} : GoTo(r, to)
    BY <1>7 DEF Find, StoreList, StoreSnapshot, QueryEntries, EndRead
  <2> QED BY <2>1, <2>2, BuilderMoves DEF AtBuild
<1> QED BY <1>1, <1>2, <1>3, <1>4, <1>5, <1>6, <1>7 DEF LibraryNext, libraryVars, readerVars

LEMMA StepLibraryTypes ==
  ASSUME ListingInv, LibraryTypes, [LibraryNext]_libraryVars
  PROVE  LibraryTypes'
<1>1. Counting' /\ OneBuilder'
  BY CountingKept, BuilderKept DEF LibraryTypes
<1>2. SavedDir \in Dir /\ 0 \in Dir
  BY LibraryAssumption DEF SavedDir, ListingInv, Types, Committed, Dir
<1>3. \A r \in Reader : promised'[r].dir \in Dir
  <2>1. CASE UNCHANGED promised
    BY <2>1 DEF LibraryTypes
  <2>2. ASSUME NEW r \in Reader, NEW k \in {"list", "page"}, Ask(r, k)
        PROVE  \A q \in Reader : promised'[q].dir \in Dir
    BY <1>2, <2>2 DEF Ask, SavedDir, LibraryTypes, ListingInv, Types
  <2>3. ASSUME NEW r \in Reader, EndRead(r) PROVE \A q \in Reader : promised'[q].dir \in Dir
    BY <1>2, <2>3 DEF EndRead, NoPromise, LibraryTypes, ListingInv, Types
  <2>4. ASSUME NEW r \in Reader,
             \/ Find(r) \/ LockBuild(r) \/ LoadGeneration(r)
             \/ ReadRows(r) \/ ReadConfig(r) \/ ReadKnown(r) \/ WalkDirectory(r)
             \/ StoreList(r) \/ StoreSnapshot(r) \/ QueryEntries(r)
        PROVE  UNCHANGED promised
    BY <2>4 DEF Find, LockBuild, LoadGeneration, ReadRows, ReadConfig, ReadKnown, WalkDirectory,
       StoreList, StoreSnapshot, QueryEntries
  <2>5. ASSUME \/ \E m \in Shot : PublishFile(m) \/ RecordFile(m)
               \/ UpdateConfig \/ AddGeneration \/ ClearList
        PROVE  UNCHANGED promised
    BY <2>5 DEF PublishFile, RecordFile, UpdateConfig, AddGeneration, ClearList, readerVars
  <2> QED BY <2>1, <2>2, <2>3, <2>4, <2>5 DEF LibraryNext, libraryVars, readerVars
<1> QED BY <1>1, <1>3 DEF LibraryTypes

(* The variables of the index keep their types.  Two things in it are more *)
(* than types: one reader at a time builds, and every save and every change*)
(* of the directory counts once, so the generation stays in its bound.     *)
THEOREM LibraryTypeCorrect == LibrarySpec => []LibraryTypeOK
<1>1. ListingInv /\ LibraryTypes => LibraryTypeOK
  <2> SUFFICES ASSUME ListingInv, LibraryTypes PROVE LibraryTypeOK
    OBVIOUS
  <2>1. \A n \in Nat : n <= generation => n \in Generations
    <3>1. CountedDir \in 0..MaxMoves
      BY LibraryAssumption DEF CountedDir, ListingInv, Types, Committed, Dir
    <3>2. Cardinality(CountedRows) \in 0..Cardinality(Shot) /\ Cardinality(Shot) \in Nat
      BY FiniteCounted, ShotAssumption, FS_CardinalityType
    <3> QED BY <3>1, <3>2, LibraryAssumption DEF LibraryTypes, Counting, Generations
  <2>2. \A i \in AnyIndex : i.gen <= generation => i \in Index
    BY <2>1 DEF AnyIndex, Index
  <2>3. generation \in Generations
    BY <2>1 DEF ListingInv, Types
  <2>4. /\ list \in Index \cup {NoIndex} /\ snapshot \in Index \cup {NoIndex}
        /\ index \in [Reader -> Index]
    BY <2>2 DEF ListingInv, Types, ListOK, SnapshotOK, ReaderOK
  <2>5. promised \in [Reader -> [rows : SUBSET Shot, dir : Dir]]
    BY DEF ListingInv, Types, LibraryTypes
  <2>6. buildMu \subseteq Reader /\ Cardinality(buildMu) <= 1
    BY DEF LibraryTypes, OneBuilder
  <2> QED BY <2>3, <2>4, <2>5, <2>6 DEF LibraryTypeOK, ListingInv, Types
<1> QED BY <1>1, InitListingInv, StepListingInv, InitLibraryTypes, StepLibraryTypes, PTL DEF LibrarySpec

-----------------------------------------------------------------------------
(* Posters.  A call in the table has a leader that is at it, and exactly   *)
(* the requests that wait have a leader to wait for.                       *)
InTable == {"slot", "fetch", "forget"}

LedFlights ==
  \A p \in Poster : flights[p] # Nobody => view[flights[p]] \in InTable /\ want[flights[p]] = p
Wanting == \A v \in Viewer : view[v] # "rest" => want[v] \in Poster
Followers == \A v \in Viewer : leader[v] # Nobody <=> view[v] = "wait"

PosterInv == PosterTypeOK /\ LedFlights /\ Wanting /\ Followers /\ OneFetch

LEMMA InitPosterInv == PosterInit => PosterInv
BY PosterAssumption
   DEF PosterInit, PosterInv, PosterTypeOK, LedFlights, Wanting, Followers, OneFetch, InTable

(* A request that nobody waits for and that leads no call may go from one  *)
(* place to another that is neither.                                       *)
LEMMA LonePosterInv ==
  ASSUME PosterInv, NEW v \in Viewer, NEW to \in {"rest", "stat", "memo", "join"},
         view[v] \in {"rest", "stat", "memo", "note"}, See(v, to),
         UNCHANGED <<flights, leader>>,
         shelf' \subseteq Poster, failures' \subseteq Poster, missed' \subseteq Viewer,
         NEW p \in Poster \cup {Nobody}, to # "rest" => p \in Poster,
         want' = [want EXCEPT ![v] = p]
  PROVE  PosterInv'
<1>1. view' = [view EXCEPT ![v] = to] /\ view \in [Viewer -> {"rest", "stat", "memo", "join",
        "wait", "slot", "fetch", "forget", "close", "note"}]
  BY DEF See, PosterInv, PosterTypeOK
<1>2. PosterTypeOK'
  BY <1>1 DEF PosterInv, PosterTypeOK
<1>3. LedFlights' /\ Wanting' /\ Followers'
  BY <1>1 DEF PosterInv, PosterTypeOK, LedFlights, Wanting, Followers, InTable
<1>4. OneFetch'
  BY <1>1 DEF PosterInv, PosterTypeOK, Followers, OneFetch
<1> QED
  BY <1>2, <1>3, <1>4 DEF PosterInv

LEMMA JoinPosterInv == ASSUME PosterInv, NEW v \in Viewer, JoinFlight(v) PROVE PosterInv'
<1> DEFINE p == want[v]
<1>1. p \in Poster /\ view[v] = "join" /\ leader[v] = Nobody
      /\ UNCHANGED <<shelf, failures, want, missed>>
  BY DEF JoinFlight, PosterInv, Wanting, Followers
<1>2. CASE flights[p] = Nobody
  <2>1. flights' = [flights EXCEPT ![p] = v] /\ view' = [view EXCEPT ![v] = "slot"]
        /\ leader' = leader
    BY <1>2 DEF JoinFlight, See
  <2>2. PosterTypeOK' /\ Wanting' /\ Followers'
    BY <1>1, <2>1 DEF PosterInv, PosterTypeOK, Wanting, Followers
  <2>3. LedFlights'
    BY <1>1, <2>1, PosterAssumption DEF PosterInv, PosterTypeOK, LedFlights, InTable
  <2>4. OneFetch'
    BY <1>1, <1>2, <2>1, PosterAssumption DEF PosterInv, PosterTypeOK, Followers, OneFetch
  <2> QED
    BY <2>2, <2>3, <2>4 DEF PosterInv
<1>3. CASE flights[p] # Nobody
  <2>1. leader' = [leader EXCEPT ![v] = flights[p]] /\ view' = [view EXCEPT ![v] = "wait"]
        /\ flights' = flights
    BY <1>3 DEF JoinFlight, See
  <2>2. flights[p] \in Viewer /\ view[flights[p]] \in InTable /\ want[flights[p]] = p
    BY <1>1, <1>3 DEF PosterInv, PosterTypeOK, LedFlights
  <2>3. PosterTypeOK' /\ Wanting' /\ Followers'
    BY <1>1, <1>3, <2>1, <2>2 DEF PosterInv, PosterTypeOK, Wanting, Followers
  <2>4. LedFlights'
    BY <1>1, <2>1 DEF PosterInv, PosterTypeOK, LedFlights, InTable
  <2>5. OneFetch'
    BY <1>1, <2>1, <2>2, PosterAssumption
       DEF PosterInv, PosterTypeOK, Followers, OneFetch, InTable
  <2> QED
    BY <2>3, <2>4, <2>5 DEF PosterInv
<1> QED
  BY <1>2, <1>3

(* The leader goes on.                                                     *)
LEMMA LeadPosterInv ==
  ASSUME PosterInv, NEW v \in Viewer,
         AcquireSlot(v) \/ FetchPoster(v) \/ FetchPosterFails(v)
  PROVE  PosterInv'
<1>1. /\ view[v] \in {"slot", "fetch"} /\ UNCHANGED <<failures, flights, want, leader>>
      /\ view' \in {[view EXCEPT ![v] = "fetch"], [view EXCEPT ![v] = "forget"]}
      /\ shelf' \subseteq shelf \cup {want[v]} /\ missed' \subseteq missed \cup {v}
  BY DEF AcquireSlot, FetchPoster, FetchPosterFails, See
<1>2. PosterTypeOK'
  BY <1>1 DEF PosterInv, PosterTypeOK, Wanting
<1>3. LedFlights' /\ Wanting' /\ Followers'
  BY <1>1 DEF PosterInv, PosterTypeOK, LedFlights, Wanting, Followers, InTable
<1>4. OneFetch'
  BY <1>1 DEF PosterInv, PosterTypeOK, Followers, OneFetch
<1> QED
  BY <1>2, <1>3, <1>4 DEF PosterInv

LEMMA ForgetPosterInv == ASSUME PosterInv, NEW v \in Viewer, ForgetFlight(v) PROVE PosterInv'
<1>1. /\ view[v] = "forget" /\ want[v] \in Poster /\ flights[want[v]] = v
      /\ view' = [view EXCEPT ![v] = "close"]
      /\ flights' = [flights EXCEPT ![want[v]] = Nobody]
      /\ UNCHANGED <<shelf, failures, want, leader, missed>>
  BY DEF ForgetFlight, See, PosterInv, Wanting, OneFetch
<1>2. PosterTypeOK' /\ Wanting' /\ Followers'
  BY <1>1 DEF PosterInv, PosterTypeOK, Wanting, Followers
<1>3. LedFlights'
  BY <1>1 DEF PosterInv, PosterTypeOK, LedFlights, InTable
<1>4. OneFetch'
  BY <1>1 DEF PosterInv, PosterTypeOK, Followers, OneFetch
<1> QED
  BY <1>2, <1>3, <1>4 DEF PosterInv

(* All who wait for the call go on with the leader.                        *)
LEMMA ClosePosterInv == ASSUME PosterInv, NEW v \in Viewer, CloseFlight(v) PROVE PosterInv'
<1> DEFINE followers == {w \in Viewer : leader[w] = v}
<1>1. /\ view[v] = "close" /\ UNCHANGED <<shelf, failures, flights, want>>
      /\ view' = [w \in Viewer |-> IF w \in followers \cup {v} THEN "note" ELSE view[w]]
      /\ leader' = [w \in Viewer |-> IF w \in followers THEN Nobody ELSE leader[w]]
      /\ missed' \subseteq missed \cup followers
  BY DEF CloseFlight
<1>2. \A w \in followers : view[w] = "wait"
  BY PosterAssumption DEF PosterInv, Followers
<1>3. PosterTypeOK' /\ Wanting'
  BY <1>1, <1>2 DEF PosterInv, PosterTypeOK, Wanting
<1>4. Followers'
  BY <1>1, <1>2 DEF PosterInv, PosterTypeOK, Followers
<1>5. LedFlights'
  BY <1>1, <1>2 DEF PosterInv, PosterTypeOK, LedFlights, InTable
<1>6. OneFetch'
  BY <1>1, <1>2 DEF PosterInv, PosterTypeOK, Followers, OneFetch
<1> QED
  BY <1>3, <1>4, <1>5, <1>6 DEF PosterInv

LEMMA StepPosterInv == PosterInv /\ [PosterNext]_posterVars => PosterInv'
<1> SUFFICES ASSUME PosterInv, [PosterNext]_posterVars PROVE PosterInv'
  OBVIOUS
<1>1. ASSUME UNCHANGED <<flights, view, want, leader, missed>>, shelf' \subseteq Poster,
             failures' \subseteq Poster
      PROVE  PosterInv'
  BY <1>1 DEF PosterInv, PosterTypeOK, LedFlights, Wanting, Followers, OneFetch
<1>2. CASE UNCHANGED posterVars
  BY <1>2, <1>1 DEF posterVars, PosterInv, PosterTypeOK
<1>3. ASSUME NEW p \in Poster, FailureExpires(p) \/ PosterGoes(p) PROVE PosterInv'
  BY <1>3, <1>1 DEF FailureExpires, PosterGoes, PosterInv, PosterTypeOK
<1>4. ASSUME NEW v \in Viewer, NEW p \in Poster, AskPoster(v, p) PROVE PosterInv'
  BY <1>4, LonePosterInv DEF AskPoster, PosterInv, PosterTypeOK
<1>5. ASSUME NEW v \in Viewer, StatPoster(v) \/ LookUpFailure(v) \/ NoteResult(v)
      PROVE  PosterInv'
  <2>1. /\ view[v] \in {"stat", "memo", "note"} /\ want[v] \in Poster
        /\ want = [want EXCEPT ![v] = want[v]]
        /\ shelf' \subseteq Poster /\ failures' \subseteq Poster /\ missed' \subseteq Viewer
    BY <1>5 DEF StatPoster, LookUpFailure, NoteResult, Served, PosterInv, PosterTypeOK, Wanting
  <2>2. CASE Served(v)
    BY <2>1, <2>2, LonePosterInv DEF Served
  <2>3. ASSUME NEW to \in {"memo", "join"}, See(v, to), UNCHANGED <<flights, want, leader>>
        PROVE  PosterInv'
    BY <2>1, <2>3, LonePosterInv
  <2> QED
    BY <1>5, <2>2, <2>3 DEF StatPoster, LookUpFailure, NoteResult
<1> QED
  BY <1>2, <1>3, <1>4, <1>5, JoinPosterInv, LeadPosterInv, ForgetPosterInv, ClosePosterInv
     DEF PosterNext

(* A poster is fetched by one request at a time, and whoever waits for a   *)
(* call of posterFetchSingleFlight waits for one that has its leader still.*)
THEOREM PosterCorrect == PosterSpec => []OneFetch
<1>1. PosterInv => OneFetch
  BY DEF PosterInv
<1> QED
  BY <1>1, InitPosterInv, StepPosterInv, PTL DEF PosterSpec
-----------------------------------------------------------------------------
(* Event streams.                                                          *)
(* The write lock: who revokes is alone, and between the update of the row *)
(* and the new channel the row is one change ahead.                        *)
Locking ==
  /\ authMu <=> \E r \in Request : phase[r] = "revoking"
  /\ \A p, q \in Request : phase[p] = "revoking" /\ phase[q] = "revoking" => p = q
  /\ sessionKey = authChanged + (IF authMu THEN 1 ELSE 0)

(* The closed revocation channels are all but the current one.             *)
Revocation ==
  /\ revoked = {c \in Nat : c < authChanged}
  /\ \A r \in Request : watched[r] <= authChanged

(* An event in a buffer or in a handler's hands is none of the future.     *)
NoFuture == \A r \in Request :
  /\ event[r] <= authChanged
  /\ \A i \in 1..Len(buffer[r]) : buffer[r][i] <= authChanged

(* The bus registers open channels only.                                   *)
Registered == \A r \in subscribers : isOpen[r]

StreamInv == /\ StreamTypeOK /\ Locking /\ Revocation /\ NoFuture /\ Registered
        /\ StreamSafe

-----------------------------------------------------------------------------
(* What a publication does to a buffer: it keeps the bound, and what is in *)
(* it is no newer than the channel.                                        *)
LEMMA Published ==
  ASSUME StreamInv, PublishEvent, NEW r \in Request
  PROVE  /\ buffer'[r] \in Seq(0..MaxChanges) /\ Len(buffer'[r]) <= BufferSize
         /\ \A i \in 1..Len(buffer'[r]) : buffer'[r][i] <= authChanged
<1> DEFINE b == buffer[r]
<1>1. /\ b \in Seq(0..MaxChanges) /\ Len(b) <= BufferSize /\ Len(b) \in Nat
      /\ authChanged \in 0..MaxChanges
      /\ \A i \in 1..Len(b) : b[i] <= authChanged
  BY DEF StreamInv, StreamTypeOK, NoFuture
<1>2. buffer'[r] = IF r \in subscribers /\ Len(b) < BufferSize THEN Append(b, authChanged) ELSE b
  BY DEF PublishEvent
<1>3. /\ Append(b, authChanged) \in Seq(0..MaxChanges)
      /\ Len(Append(b, authChanged)) = Len(b) + 1
      /\ \A i \in 1..(Len(b) + 1) : Append(b, authChanged)[i] = IF i = Len(b) + 1 THEN authChanged ELSE b[i]
  BY <1>1
<1>4. BufferSize \in Nat /\ authChanged \in Nat /\ MaxChanges \in Nat
  BY <1>1, StreamAssumption
<1> HIDE DEF b
<1>5. CASE r \in subscribers /\ Len(b) < BufferSize
  <2>1. buffer'[r] = Append(b, authChanged)
    BY <1>2, <1>5
  <2>2. \A i \in 1..(Len(b) + 1) : Append(b, authChanged)[i] <= authChanged
    BY <1>1, <1>3, <1>4
  <2>3. QED
    BY <1>1, <1>3, <1>4, <1>5, <2>1, <2>2
<1>6. CASE ~(r \in subscribers /\ Len(b) < BufferSize)
  BY <1>1, <1>2, <1>6
<1>7. QED
  BY <1>5, <1>6

(* What the receipt of an event leaves in the buffer.                      *)
LEMMA Received ==
  ASSUME StreamInv, NEW r \in Request, ReceiveEvent(r)
  PROVE  /\ buffer'[r] \in Seq(0..MaxChanges) /\ Len(buffer'[r]) <= BufferSize
         /\ \A i \in 1..Len(buffer'[r]) : buffer'[r][i] <= authChanged
         /\ event'[r] \in 0..MaxChanges /\ event'[r] <= authChanged
<1> DEFINE b == buffer[r]
<1>1. /\ b \in Seq(0..MaxChanges) /\ Len(b) <= BufferSize /\ Len(b) \in Nat /\ b # <<>>
      /\ \A i \in 1..Len(b) : b[i] <= authChanged
  BY DEF StreamInv, StreamTypeOK, NoFuture, ReceiveEvent
<1>2. buffer'[r] = Tail(b) /\ event'[r] = Head(b)
  BY DEF ReceiveEvent, StreamInv, StreamTypeOK
<1>3. /\ Tail(b) \in Seq(0..MaxChanges) /\ Len(Tail(b)) = Len(b) - 1
      /\ Len(b) \in Nat \ {0}
      /\ \A i \in 1..(Len(b) - 1) : Tail(b)[i] = b[i + 1]
      /\ Head(b) = b[1] /\ Head(b) \in 0..MaxChanges
  <2>1. Len(b) \in Nat \ {0}
    BY <1>1, EmptySeq
  <2> HIDE DEF b
  <2>2. /\ Tail(b) \in Seq(0..MaxChanges) /\ Len(Tail(b)) = Len(b) - 1
        /\ \A i \in 1..Len(Tail(b)) : Tail(b)[i] = b[i + 1]
        /\ Head(b) \in 0..MaxChanges
    BY <1>1, HeadTailProperties, Zenon
  <2>3. Head(b) = b[1]
    BY <1>1, <2>1
  <2>4. QED
    BY <2>1, <2>2, <2>3
<1> HIDE DEF b
<1>4. \A i \in 1..(Len(b) - 1) : i + 1 \in 1..Len(b)
  BY <1>1
<1>5. QED
  BY <1>1, <1>2, <1>3, <1>4, StreamAssumption

LEMMA InitStreamInv == StreamInit => StreamInv
<1> SUFFICES ASSUME StreamInit PROVE StreamInv
  OBVIOUS
<1>1. \A r \in Request : buffer[r] = <<>> /\ Len(buffer[r]) = 0
  BY DEF StreamInit
<1>2. buffer \in [Request -> Seq(0..MaxChanges)]
  BY DEF StreamInit
<1>3. StreamTypeOK
  <2>1. 0 \in 0..MaxChanges /\ \A r \in Request : Len(buffer[r]) <= BufferSize
    BY <1>1, StreamAssumption
  <2>2. QED
    BY <1>2, <2>1, Zenon DEF StreamInit, StreamTypeOK
<1>4. Locking /\ Revocation /\ Registered /\ StreamSafe
  BY DEF StreamInit, Locking, Revocation, Registered, StreamSafe
<1>5. NoFuture
  BY <1>1 DEF StreamInit, NoFuture
<1>6. QED
  BY <1>3, <1>4, <1>5 DEF StreamInv

(* Every step of every request, of the bus and of a password change keeps  *)
(* the invariant.                                                          *)
LEMMA StepStreamInv == StreamInv /\ [StreamNext]_streamVars => StreamInv'
<1> SUFFICES ASSUME StreamInv, [StreamNext]_streamVars PROVE StreamInv'
  OBVIOUS
<1> USE StreamAssumption
<1>1. CASE UNCHANGED streamVars
  BY <1>1 DEF StreamInv, StreamTypeOK, Locking, Revocation, NoFuture, Registered, StreamSafe,
              streamVars, sessionVars, busVars
<1>2. CASE CloseAll
  BY <1>2 DEF CloseAll, CloseChannels, StreamInv, StreamTypeOK, Locking, Revocation, NoFuture,
              Registered, StreamSafe, sessionVars
<1>3. CASE PublishEvent
  <2>1. StreamTypeOK'
    BY <1>3, Published DEF PublishEvent, StreamInv, StreamTypeOK, Registered, StreamSafe, sessionVars
  <2>2. NoFuture'
    BY <1>3, Published DEF PublishEvent, StreamInv, NoFuture, sessionVars
  <2>3. (Locking /\ Revocation /\ Registered /\ StreamSafe)'
    BY <1>3 DEF PublishEvent, StreamInv, Locking, Revocation, Registered, StreamSafe, sessionVars
  <2>4. QED
    BY <2>1, <2>2, <2>3 DEF StreamInv
<1>4. ASSUME NEW r \in Request, RequireLogin(r) PROVE StreamInv'
  BY <1>4 DEF RequireLogin, GoOn, StreamInv, StreamTypeOK, Locking, Revocation, NoFuture, Registered,
              StreamSafe, sessionVars, busVars
<1>5. ASSUME NEW r \in Request, UpdateAccountPassword(r) PROVE StreamInv'
  BY <1>5 DEF UpdateAccountPassword, GoOn, StreamInv, StreamTypeOK, Locking, Revocation, NoFuture,
              Registered, StreamSafe, busVars
<1>6. ASSUME NEW r \in Request, CloseAuthChanged(r) PROVE StreamInv'
  <2>1. authMu /\ sessionKey = authChanged + 1
    BY <1>6 DEF CloseAuthChanged, StreamInv, Locking
  <2>2. StreamTypeOK'
    BY <1>6, <2>1 DEF CloseAuthChanged, GoOn, StreamInv, StreamTypeOK, busVars
  <2>3. (Locking /\ Revocation)'
    BY <1>6, <2>1 DEF CloseAuthChanged, GoOn, StreamInv, StreamTypeOK, Locking, Revocation
  <2>4. (NoFuture /\ Registered /\ StreamSafe)'
    BY <1>6 DEF CloseAuthChanged, GoOn, StreamInv, StreamTypeOK, NoFuture, Registered, StreamSafe,
                busVars
  <2>5. QED
    BY <2>2, <2>3, <2>4 DEF StreamInv
<1>7. ASSUME NEW r \in Request, ServeOther(r) PROVE StreamInv'
  BY <1>7 DEF ServeOther, GoOn, StreamInv, StreamTypeOK, Locking, Revocation, NoFuture, Registered,
              StreamSafe, sessionVars, busVars
<1>8. ASSUME NEW r \in Request, Subscribe(r) PROVE StreamInv'
  <2> DEFINE full == busClosed \/ Cardinality(subscribers) >= MaxSubscribers
  <2>0. CASE full
    BY <1>8, <2>0 DEF Subscribe, GoOn, StreamInv, StreamTypeOK, Locking, Revocation, NoFuture,
                      Registered, StreamSafe, sessionVars, busVars
  <2> SUFFICES ASSUME ~full PROVE StreamInv'
    BY <2>0
  <2> HIDE DEF full
  <2>1. /\ subscribers' = subscribers \cup {r} /\ isOpen' = [isOpen EXCEPT ![r] = TRUE]
        /\ buffer' = [buffer EXCEPT ![r] = <<>>] /\ phase' = [phase EXCEPT ![r] = "greet"]
        /\ phase[r] = "authorized"
        /\ UNCHANGED <<sessionKey, authChanged, revoked, authMu, account, watched, event,
                       busClosed, panicked>>
    BY <1>8, Zenon DEF Subscribe, GoOn, sessionVars, full
  <2>2. \A q \in Request : buffer'[q] \in {buffer[q], <<>>}
    BY <2>1 DEF StreamInv, StreamTypeOK
  <2>3. <<>> \in Seq(0..MaxChanges) /\ Len(<<>>) = 0
    BY EmptySeq
  <2>4. StreamTypeOK'
    BY <2>1, <2>2, <2>3 DEF StreamInv, StreamTypeOK
  <2>5. NoFuture'
    BY <2>1, <2>2, <2>3 DEF StreamInv, NoFuture
  <2>6. (Locking /\ Revocation /\ Registered /\ StreamSafe)'
    BY <2>1 DEF StreamInv, StreamTypeOK, Locking, Revocation, Registered, StreamSafe
  <2>7. QED
    BY <2>4, <2>5, <2>6 DEF StreamInv
<1>9. ASSUME NEW r \in Request, Unsubscribe(r) PROVE StreamInv'
  BY <1>9 DEF Unsubscribe, CloseChannels, GoOn, StreamInv, StreamTypeOK, Locking, Revocation, NoFuture,
              Registered, StreamSafe, sessionVars
<1>10. ASSUME NEW r \in Request, Greet(r) \/ EndStream(r) PROVE StreamInv'
  <2>1. PICK next \in {"leaving", "select"} : phase' = [phase EXCEPT ![r] = next]
    BY <1>10 DEF Greet, EndStream, GoOn
  <2>2. phase[r] # "revoking" /\ UNCHANGED <<sessionVars, busVars, account, watched, event>>
    BY <1>10 DEF Greet, EndStream
  <2>3. QED
    BY <2>1, <2>2 DEF StreamInv, StreamTypeOK, Locking, Revocation, NoFuture, Registered, StreamSafe,
                      sessionVars, busVars
<1>11. ASSUME NEW r \in Request, ReceiveEvent(r) PROVE StreamInv'
  <2>1. \A q \in Request \ {r} : buffer'[q] = buffer[q] /\ event'[q] = event[q]
    BY <1>11 DEF ReceiveEvent, StreamInv, StreamTypeOK
  <2>2. StreamTypeOK'
    BY <1>11, <2>1, Received DEF ReceiveEvent, GoOn, StreamInv, StreamTypeOK, sessionVars
  <2>3. NoFuture'
    BY <1>11, <2>1, Received DEF ReceiveEvent, StreamInv, NoFuture, sessionVars
  <2>4. (Locking /\ Revocation /\ Registered /\ StreamSafe)'
    BY <1>11 DEF ReceiveEvent, GoOn, StreamInv, StreamTypeOK, Locking, Revocation, Registered,
                 StreamSafe, sessionVars
  <2>5. QED
    BY <2>2, <2>3, <2>4 DEF StreamInv
<1>12. ASSUME NEW r \in Request, CheckRevoked(r) PROVE StreamInv'
  <2>1. ~Revoked(r) => event[r] <= watched[r]
    BY DEF Revoked, StreamInv, StreamTypeOK, Revocation, NoFuture
  <2>2. QED
    BY <1>12, <2>1 DEF CheckRevoked, GoOn, StreamInv, StreamTypeOK, Locking, Revocation, NoFuture,
                       Registered, StreamSafe, sessionVars, busVars
<1>13. ASSUME NEW r \in Request, WriteEvent(r) PROVE StreamInv'
  BY <1>13 DEF WriteEvent, GoOn, StreamInv, StreamTypeOK, Locking, Revocation, NoFuture, Registered,
               StreamSafe, sessionVars, busVars
<1> QED
  BY <1>1, <1>2, <1>3, <1>4, <1>5, <1>6, <1>7, <1>8, <1>9, <1>10, <1>11, <1>12, <1>13 DEF StreamNext

-----------------------------------------------------------------------------
(* The variables of the sessions, the bus and the streams keep their types *)
(* and no buffer outgrows its size.                                        *)
THEOREM StreamTypeCorrect == StreamSpec => []StreamTypeOK
<1>1. StreamInv => StreamTypeOK
  BY DEF StreamInv
<1> QED
  BY <1>1, InitStreamInv, StepStreamInv, PTL DEF StreamSpec

(* A stream never shows an event from after the password change that ended *)
(* its session, and a channel is never closed twice.                       *)
THEOREM StreamCorrect == StreamSpec => []StreamSafe
<1>1. StreamInv => StreamSafe
  BY DEF StreamInv
<1> QED
  BY <1>1, InitStreamInv, StepStreamInv, PTL DEF StreamSpec

-----------------------------------------------------------------------------
(* The directory of a user.                                                *)
Renaming == doing \in {"rename", "rewrite", "rewriteGone", "rollback"}
Halfway  == doing \in {"rewrite", "rollback"}

(* The names in a job's hands; the directory it goes on with is made before*)
(* the links are looked at.                                                *)
NamesKnown ==
  /\ doing # "rest" => wanted \in Title
  /\ doing \notin {"rest", "locate"} => chosen \in Title
  /\ Renaming => entity \notin {NoName, wanted}
  /\ doing = "rewriteGone" => entity \notin dirs
  /\ doing \in {"refresh", "sync", "list", "link", "save"} => chosen \in dirs

(* A file lies in a directory that exists.                                 *)
OnDisk == \A f \in File : place[f] \in dirs \cup {NoName}

(* The disk has the new name, the rows have the old one.                   *)
RenamedTo(name) ==
  /\ name \in Title /\ entity \notin {NoName, name} /\ entity \notin dirs
  /\ place = Moved(filed, entity, name)

(* The rows agree with the disk, but between the steps of a rename; and    *)
(* while one is torn a job has the title it was torn at, so that it comes  *)
(* to the rows again and not to the disk.                                  *)
FilesAgree ==
  ~strayed =>
    /\ Halfway => /\ torn = NoName /\ RenamedTo(wanted)
                  /\ wanted \in dirs /\ \A f \in File : filed[f] # wanted
    /\ ~Halfway /\ torn = NoName => filed = place
    /\ torn # NoName => /\ RenamedTo(torn)
                        /\ doing \in {"rest", "locate", "rename", "rewriteGone"}
                        /\ doing # "rest" => wanted = torn

(* The link of the list leads to the directory from the refresh on, unless *)
(* it has a name now that is yet to be linked.                             *)
LinkLeads ==
  /\ doing = "sync" => linkRow = chosen
  /\ doing = "list" => linkRow = NoName \/ linkTo[linkRow] = chosen
  /\ doing = "link" => linkRow = wanted
  /\ doing = "save" /\ ~linkLost => linkRow = NoName \/ linkTo[linkRow] = chosen

DirectoryInv == DirectoryTypeOK /\ NamesKnown /\ OnDisk /\ FilesAgree /\ LinkLeads

-----------------------------------------------------------------------------
(* What a move does to a map of the files.                                 *)
LEMMA MovedType ==
  ASSUME NEW f \in [File -> AnyName], NEW from, NEW to \in AnyName
  PROVE  Moved(f, from, to) \in [File -> AnyName]
BY DEF Moved

LEMMA MovedBack ==
  ASSUME NEW f \in [File -> AnyName], NEW from, NEW to, \A x \in File : f[x] # to
  PROVE  Moved(Moved(f, from, to), to, from) = f
<1> DEFINE g == Moved(f, from, to)
<1>1. \A x \in File : g[x] = IF f[x] = from THEN to ELSE f[x]
  BY DEF Moved
<1>2. \A x \in File : (IF g[x] = to THEN from ELSE g[x]) = f[x]
  BY <1>1
<1> HIDE DEF g
<1>3. Moved(g, to, from) = [x \in File |-> f[x]]
  BY <1>2 DEF Moved
<1> QED BY <1>3 DEF g

LEMMA MovedNone ==
  ASSUME NEW f \in [File -> AnyName], NEW from, NEW to, \A x \in File : f[x] # from
  PROVE  Moved(f, from, to) = f
<1>1. Moved(f, from, to) = [x \in File |-> f[x]]
  BY DEF Moved
<1> QED BY <1>1
-----------------------------------------------------------------------------
(* The types, step by step.                                                *)
Quiet ==
  \/ ChangeTitle \/ StartEnsure \/ LocateUserEntity \/ KeepName \/ SourceGone \/ RewriteFails
  \/ NoLinks \/ NotViaList \/ UserDone \/ BreakOff

LEMMA TypeQuiet == DirectoryTypeOK /\ NamesKnown /\ Quiet => DirectoryTypeOK'
<1> SUFFICES ASSUME DirectoryTypeOK, NamesKnown, Quiet PROVE DirectoryTypeOK'
  OBVIOUS
<1> USE DirectoryAssumption
    DEF DirectoryTypeOK, AnyName, Trouble, Choose, userVars, diskVars, linkVars, jobVars, pastVars
<1>1. CASE ChangeTitle
  BY <1>1 DEF ChangeTitle
<1>2. CASE StartEnsure
  BY <1>2 DEF StartEnsure
<1>3. CASE LocateUserEntity
  BY <1>3 DEF LocateUserEntity
<1>4. CASE KeepName
  BY <1>4 DEF KeepName
<1>5. CASE SourceGone \/ NoLinks \/ NotViaList
  BY <1>5 DEF SourceGone, NoLinks, NotViaList
<1>6. CASE RewriteFails
  BY <1>6 DEF RewriteFails
<1>7. CASE UserDone
  BY <1>7 DEF UserDone, EndJob
<1>8. CASE BreakOff
  <2>1. torn' \in AnyName /\ troubles' \in 0..MaxTroubles
    BY <1>8 DEF BreakOff
  <2> QED BY <1>8, <2>1 DEF BreakOff, EndJob
<1> QED BY <1>1, <1>2, <1>3, <1>4, <1>5, <1>6, <1>7, <1>8 DEF Quiet

LEMMA TypeStep == DirectoryInv /\ [DirectoryNext]_directoryVars => DirectoryTypeOK'
<1> SUFFICES ASSUME DirectoryTypeOK, NamesKnown, [DirectoryNext]_directoryVars PROVE DirectoryTypeOK'
  BY DEF DirectoryInv
<1> USE DirectoryAssumption
    DEF DirectoryTypeOK, AnyName, Trouble, Choose, userVars, diskVars, linkVars, jobVars, pastVars
<1>1. CASE Rename
  <2>1. place' \in [File -> AnyName]
    BY <1>1, MovedType DEF Rename, NamesKnown
  <2> QED BY <1>1, <2>1 DEF Rename, NamesKnown
<1>2. CASE RewriteDownloadPathPrefix
  <2>1. filed' \in [File -> AnyName]
    BY <1>2, MovedType DEF RewriteDownloadPathPrefix
  <2> QED BY <1>2, <2>1 DEF RewriteDownloadPathPrefix
<1>3. CASE Rollback
  <2>1. place' \in [File -> AnyName]
    BY <1>3, MovedType DEF Rollback
  <2> QED BY <1>3, <2>1 DEF Rollback, EndJob, NamesKnown, Renaming
<1>4. CASE EnsureUserEntity \/ MkdirAll
  BY <1>4 DEF EnsureUserEntity, MkdirAll, NamesKnown
<1>5. CASE RefreshLinkRow
  BY <1>5 DEF RefreshLinkRow
<1>6. CASE SyncLink
  BY <1>6 DEF SyncLink
<1>7. CASE EnsureUserLink
  BY <1>7 DEF EnsureUserLink
<1>10. CASE MakeUserLink
  <2>1. wanted \in Title /\ chosen \in Title
    BY <1>10 DEF MakeUserLink, NamesKnown
  <2>2. linkTo' \in [Title -> AnyName]
    BY <1>10, <2>1 DEF MakeUserLink
  <2>3. linkLost' \in BOOLEAN
    BY <1>10 DEF MakeUserLink
  <2>4. troubles' \in 0..MaxTroubles
    BY <1>10 DEF MakeUserLink
  <2> QED BY <1>10, <2>2, <2>3, <2>4 DEF MakeUserLink
<1>8. ASSUME NEW f \in File, SaveFile(f) PROVE DirectoryTypeOK'
  BY <1>8 DEF SaveFile
<1>9. CASE UNCHANGED directoryVars
  BY <1>9 DEF directoryVars
<1> QED
  BY <1>1, <1>2, <1>3, <1>4, <1>5, <1>6, <1>7, <1>8, <1>9, <1>10, TypeQuiet DEF DirectoryNext, Quiet
-----------------------------------------------------------------------------
(* The names of a job and the directories of the files.                    *)
LEMMA NamesStep == DirectoryInv /\ [DirectoryNext]_directoryVars => NamesKnown' /\ OnDisk'
<1> SUFFICES ASSUME DirectoryTypeOK, NamesKnown, OnDisk, [DirectoryNext]_directoryVars
             PROVE  NamesKnown' /\ OnDisk'
  BY DEF DirectoryInv
<1> USE DirectoryAssumption
    DEF DirectoryTypeOK, NamesKnown, OnDisk, Renaming, AnyName, Choose, userVars, diskVars, jobVars
<1>1. CASE ChangeTitle \/ StartEnsure \/ LocateUserEntity
  BY <1>1 DEF ChangeTitle, StartEnsure, LocateUserEntity
<1>2. CASE Rename
  BY <1>2 DEF Rename, Moved
<1>3. CASE KeepName \/ SourceGone \/ RewriteFails \/ RewriteDownloadPathPrefix
  BY <1>3 DEF KeepName, SourceGone, RewriteFails, RewriteDownloadPathPrefix
<1>4. CASE Rollback
  BY <1>4 DEF Rollback, EndJob, Moved
<1>5. CASE EnsureUserEntity \/ MkdirAll
  BY <1>5 DEF EnsureUserEntity, MkdirAll
<1>6. CASE NoLinks \/ RefreshLinkRow \/ SyncLink \/ NotViaList \/ EnsureUserLink \/ MakeUserLink
  BY <1>6 DEF NoLinks, RefreshLinkRow, SyncLink, NotViaList, EnsureUserLink, MakeUserLink
<1>7. CASE UserDone \/ BreakOff
  BY <1>7 DEF UserDone, BreakOff, EndJob
<1>8. ASSUME NEW f \in File, SaveFile(f) PROVE NamesKnown' /\ OnDisk'
  BY <1>8 DEF SaveFile
<1>9. CASE UNCHANGED directoryVars
  BY <1>9 DEF directoryVars
<1> QED
  BY <1>1, <1>2, <1>3, <1>4, <1>5, <1>6, <1>7, <1>8, <1>9 DEF DirectoryNext

LEMMA LinkStep == DirectoryInv /\ [DirectoryNext]_directoryVars => LinkLeads'
<1> SUFFICES ASSUME DirectoryTypeOK, NamesKnown, LinkLeads, [DirectoryNext]_directoryVars
             PROVE  LinkLeads'
  BY DEF DirectoryInv
<1> USE DirectoryAssumption
    DEF DirectoryTypeOK, NamesKnown, LinkLeads, AnyName, Choose, linkVars, jobVars
<1>1. CASE ChangeTitle \/ StartEnsure \/ LocateUserEntity
  BY <1>1 DEF ChangeTitle, StartEnsure, LocateUserEntity
<1>2. CASE Rename \/ KeepName \/ SourceGone \/ RewriteFails \/ RewriteDownloadPathPrefix \/ Rollback
  BY <1>2 DEF Rename, KeepName, SourceGone, RewriteFails, RewriteDownloadPathPrefix, Rollback, EndJob
<1>3. CASE EnsureUserEntity \/ MkdirAll
  BY <1>3 DEF EnsureUserEntity, MkdirAll
<1>4. CASE NoLinks \/ RefreshLinkRow \/ SyncLink
  BY <1>4 DEF NoLinks, RefreshLinkRow, SyncLink
<1>5. CASE NotViaList \/ EnsureUserLink \/ MakeUserLink
  BY <1>5 DEF NotViaList, EnsureUserLink, MakeUserLink
<1>6. CASE UserDone \/ BreakOff
  BY <1>6 DEF UserDone, BreakOff, EndJob
<1>7. ASSUME NEW f \in File, SaveFile(f) PROVE LinkLeads'
  BY <1>7 DEF SaveFile, pastVars
<1>8. CASE UNCHANGED directoryVars
  BY <1>8 DEF directoryVars, pastVars
<1> QED
  BY <1>1, <1>2, <1>3, <1>4, <1>5, <1>6, <1>7, <1>8 DEF DirectoryNext
-----------------------------------------------------------------------------
(* The rows and the disk.                                                  *)

LEMMA FilesStep == DirectoryInv /\ [DirectoryNext]_directoryVars => FilesAgree'
<1> SUFFICES ASSUME DirectoryInv, [DirectoryNext]_directoryVars, ~strayed' PROVE FilesAgree'
  BY DEF FilesAgree
<1>1. ~strayed /\ DirectoryTypeOK /\ NamesKnown /\ OnDisk /\ FilesAgree
  <2>1. strayed => strayed'
    BY DEF DirectoryNext, ChangeTitle, StartEnsure, LocateUserEntity, Rename, KeepName, SourceGone,
           RewriteDownloadPathPrefix, RewriteFails, Rollback, EnsureUserEntity, MkdirAll, NoLinks,
           RefreshLinkRow, SyncLink, NotViaList, EnsureUserLink, MakeUserLink, UserDone, BreakOff, SaveFile,
           directoryVars, pastVars
  <2> QED BY <2>1 DEF DirectoryInv
<1> USE DEF FilesAgree, Halfway, diskVars, pastVars
<1>2. CASE StartEnsure
  BY <1>1, <1>2 DEF StartEnsure, RenamedTo, Moved
<1>3. CASE LocateUserEntity
  BY <1>1, <1>3 DEF LocateUserEntity, Choose, RenamedTo, Moved, jobVars
<1>4. CASE Rename
  <2>1. torn = NoName /\ filed = place /\ entity # wanted /\ entity # NoName /\ entity \in dirs
        /\ wanted \notin dirs /\ wanted \in Title /\ wanted # NoName
    BY <1>1, <1>4, DirectoryAssumption DEF Rename, RenamedTo, NamesKnown, Renaming
  <2>2. \A f \in File : filed[f] # wanted
    BY <1>1, <2>1 DEF OnDisk
  <2>3. RenamedTo(wanted)' /\ wanted' \in dirs'
    BY <1>4, <2>1 DEF Rename, RenamedTo, Moved, jobVars
  <2> QED BY <1>4, <2>1, <2>2, <2>3 DEF Rename, jobVars
<1>5. CASE KeepName
  BY <1>1, <1>5 DEF KeepName, Choose, RenamedTo
<1>6. CASE SourceGone
  BY <1>1, <1>6 DEF SourceGone, RenamedTo, Moved, jobVars
<1>7. CASE RewriteDownloadPathPrefix
  <2>1. CASE torn = NoName /\ doing = "rewriteGone"
    <3>1. \A f \in File : filed[f] # entity
      BY <1>1, <2>1 DEF OnDisk, NamesKnown, Renaming
    <3>2. filed' = filed
      BY <1>1, <1>7, <3>1, MovedNone DEF RewriteDownloadPathPrefix, DirectoryTypeOK
    <3> QED BY <1>1, <1>7, <2>1, <3>2 DEF RewriteDownloadPathPrefix
  <2>2. CASE torn # NoName \/ doing = "rewrite"
    BY <1>1, <1>7, <2>2 DEF RewriteDownloadPathPrefix, RenamedTo
  <2> QED BY <1>7, <2>1, <2>2 DEF RewriteDownloadPathPrefix
<1>8. CASE RewriteFails
  BY <1>1, <1>8 DEF RewriteFails, RenamedTo, Moved, jobVars
<1>9. CASE Rollback
  <2>1. torn = NoName /\ place = Moved(filed, entity, wanted) /\ \A f \in File : filed[f] # wanted
    BY <1>1, <1>9 DEF Rollback, RenamedTo
  <2>2. place' = filed
    BY <1>1, <1>9, <2>1, MovedBack DEF Rollback, DirectoryTypeOK
  <2> QED BY <1>9, <2>1, <2>2 DEF Rollback, EndJob
<1>10. CASE EnsureUserEntity \/ MkdirAll
  BY <1>1, <1>10 DEF EnsureUserEntity, MkdirAll
<1>11. CASE NoLinks \/ RefreshLinkRow \/ SyncLink \/ NotViaList \/ EnsureUserLink \/ MakeUserLink
            \/ UserDone
  BY <1>1, <1>11 DEF NoLinks, RefreshLinkRow, SyncLink, NotViaList, EnsureUserLink, MakeUserLink,
                     UserDone, EndJob
<1>12. CASE BreakOff
  <2>1. CASE doing \in {"rewrite", "rollback"}
    <3>1. torn' = wanted /\ doing' = "rest" /\ RenamedTo(wanted) /\ wanted # NoName
      BY <1>1, <1>12, <2>1, DirectoryAssumption DEF BreakOff, EndJob, NamesKnown
    <3>2. RenamedTo(torn)'
      BY <1>12, <3>1 DEF BreakOff, RenamedTo, Moved
    <3> QED BY <3>1, <3>2
  <2>2. CASE doing \notin {"rewrite", "rollback"}
    BY <1>1, <1>12, <2>2 DEF BreakOff, EndJob, RenamedTo, Moved
  <2> QED BY <2>1, <2>2
<1>13. ASSUME NEW f \in File, SaveFile(f) PROVE FilesAgree'
  BY <1>1, <1>13 DEF SaveFile
<1>14. CASE ChangeTitle \/ UNCHANGED directoryVars
  BY <1>1, <1>14 DEF ChangeTitle, directoryVars, RenamedTo, Moved, jobVars
<1> QED
  BY <1>2, <1>3, <1>4, <1>5, <1>6, <1>7, <1>8, <1>9, <1>10, <1>11, <1>12, <1>13, <1>14
  DEF DirectoryNext
-----------------------------------------------------------------------------
LEMMA InitDirectoryInv == DirectoryInit => DirectoryInv
<1> SUFFICES ASSUME DirectoryInit PROVE DirectoryInv
  OBVIOUS
<1>1. DirectoryTypeOK
  <2>1. /\ title \in Title /\ titles \in 0..MaxTitles /\ entity \in AnyName
        /\ dirs \in SUBSET Title /\ taken \in SUBSET Title
    BY DirectoryAssumption DEF DirectoryInit, AnyName
  <2>2. /\ place \in [File -> AnyName] /\ filed \in [File -> AnyName]
        /\ linkRow \in AnyName /\ linkTo \in [Title -> AnyName]
    BY DEF DirectoryInit, AnyName
  <2>3. viaList \in BOOLEAN /\ linkLost \in BOOLEAN /\ strayed \in BOOLEAN
    BY Zenon DEF DirectoryInit
  <2>4. /\ wanted \in AnyName /\ former \in AnyName /\ chosen \in AnyName /\ torn \in AnyName
        /\ troubles \in 0..MaxTroubles /\ doing = "rest"
    BY DirectoryAssumption DEF DirectoryInit, AnyName
  <2> QED BY <2>1, <2>2, <2>3, <2>4, Zenon DEF DirectoryTypeOK
<1>2. NamesKnown /\ OnDisk /\ FilesAgree /\ LinkLeads
  BY DEF DirectoryInit, NamesKnown, Renaming, OnDisk, FilesAgree, Halfway, LinkLeads
<1> QED BY <1>1, <1>2 DEF DirectoryInv

LEMMA DirectoryInvHolds == DirectorySpec => []DirectoryInv
<1>1. DirectoryInv /\ [DirectoryNext]_directoryVars => DirectoryInv'
  BY TypeStep, NamesStep, LinkStep, FilesStep DEF DirectoryInv
<1> QED BY <1>1, InitDirectoryInv, PTL DEF DirectorySpec

(* Every variable keeps its type: rows, links and files bear names the user*)
(* has gone by, or none.                                                   *)
THEOREM DirectoryTypeCorrect == DirectorySpec => []DirectoryTypeOK
<1>1. DirectoryInv => DirectoryTypeOK
  BY DEF DirectoryInv
<1> QED BY <1>1, DirectoryInvHolds, PTL

(* Renames of a user's directory that fail, are rolled back, or are torn by*)
(* a crash leave the rows of the files and the links as the next job needs *)
(* them, unless the title changed before a torn one was mended.            *)
THEOREM PathsCorrect == DirectorySpec => []PathsLead
<1>1. DirectoryInv => PathsLead
  BY DEF DirectoryInv, FilesAgree, Halfway, LinkLeads, PathsLead
<1> QED BY <1>1, DirectoryInvHolds, PTL

-----------------------------------------------------------------------------
(* The parts under one configuration: what is proved of each holds in the  *)
(* behaviours TLC looks at.                                                *)
THEOREM PartsCorrect ==
  PartsSpec => Spec /\ LibrarySpec /\ PosterSpec /\ DirectorySpec /\ StreamSpec
<1>1. PartsInit => Init /\ LibraryInit /\ PosterInit /\ DirectoryInit /\ StreamInit
  BY DEF PartsInit
<1>2. [PartsNext]_partsVars =>
        /\ [Next]_vars /\ [LibraryNext]_libraryVars /\ [PosterNext]_posterVars
        /\ [DirectoryNext]_directoryVars /\ [StreamNext]_streamVars
  BY DEF PartsNext, partsVars
<1> QED BY <1>1, <1>2, PTL
        DEF PartsSpec, Spec, LibrarySpec, PosterSpec, DirectorySpec, StreamSpec

(* The variables of the archive, the index, the posters, the directory and *)
(* the streams keep their types: the numbers of a file name, the generation*)
(* of the index and the buffers of the streams stay in their bounds.       *)
THEOREM PartsTypeCorrect == PartsSpec => []PartsTypeOK
<1>1. PosterSpec => []PosterTypeOK
  <2>1. PosterInv => PosterTypeOK
    BY DEF PosterInv
  <2> QED BY <2>1, InitPosterInv, StepPosterInv, PTL DEF PosterSpec
<1>2. /\ TypeOK /\ LibraryTypeOK /\ PosterTypeOK /\ DirectoryTypeOK /\ StreamTypeOK
      => PartsTypeOK
  BY DEF PartsTypeOK
<1> QED BY <1>1, <1>2, PartsCorrect, TypeCorrect, LibraryTypeCorrect, DirectoryTypeCorrect,
           StreamTypeCorrect, PTL
=============================================================================
