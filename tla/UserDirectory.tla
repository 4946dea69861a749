--------------------------- MODULE UserDirectory ---------------------------
(***************************************************************************)
(* The directory of an archived user: ensureUserEntity with                *)
(* renameEntityDir, refreshUserLinks and ensureUserLink.  A directory is   *)
(* named after the user's title at X, the database records the name, the   *)
(* path of every file and the links in list directories, and a new title   *)
(* moves all of them step by step.  lockUser lets one job at a time do it. *)
(* A name stands for the path below users/ of the download directory.      *)
(***************************************************************************)
EXTENDS Integers

CONSTANTS
  Title,       \* titles the user goes by at X
  Taken,       \* those that name the directory of another user at first
  File,        \* media of the user
  MaxTitles,   \* bound: changes of the title
  MaxTroubles, \* bound: statements and file operations that fail, crashes
  NoName       \* no entity, no link, no file

ASSUME DirectoryAssumption ==
  /\ Taken \subseteq Title /\ NoName \notin Title
  /\ MaxTitles \in Nat /\ MaxTroubles \in Nat

AnyName == Title \cup {NoName}

VARIABLES
  title,     \* the user's title at X
  titles,    \* how often it has changed
  entity,    \* user_entities.name
  dirs,      \* the user's directories on disk
  taken,     \* the names of directories that other users have
  place,     \* place[f]: the directory that holds file f
  filed,     \* filed[f]: the directory in the file_path of f's row
  linkRow,   \* user_links.name, for a list the user is on
  linkTo,    \* linkTo[n]: where the link n in the list's directory leads
  doing,     \* the next step of the job
  viaList,   \* the job archives the list
  wanted,    \* the name made from the title the job was given
  chosen,    \* the name the job goes on with
  former,    \* the link the job is to remove
  linkLost,  \* the job could not make the list's link and says so
  torn,      \* the name on disk of a rename that the rows do not know
  strayed,   \* a torn rename met a job with another title
  troubles

userVars == <<title, titles>>
diskVars == <<dirs, taken, place>>
linkVars == <<linkRow, linkTo>>
jobVars  == <<viaList, wanted, former>>
pastVars == <<linkLost, torn, strayed>>
directoryVars == <<userVars, entity, diskVars, filed, linkVars, doing, jobVars, chosen,
                   pastVars, troubles>>

DirectoryInit ==
  /\ title \in Title /\ titles = 0
  /\ entity = NoName /\ dirs = {} /\ taken = Taken
  /\ place = [f \in File |-> NoName] /\ filed = [f \in File |-> NoName]
  /\ linkRow = NoName /\ linkTo = [n \in Title |-> NoName]
  /\ doing = "rest" /\ viaList = FALSE
  /\ wanted = NoName /\ former = NoName /\ chosen = NoName
  /\ linkLost = FALSE
  /\ torn = NoName /\ strayed = FALSE /\ troubles = 0

Moved(f, from, to) == [x \in File |-> IF f[x] = from THEN to ELSE f[x]]
Trouble == troubles < MaxTroubles /\ troubles' = troubles + 1
Choose(name, next) == chosen' = name /\ doing' = next
EndJob ==
  /\ doing' = "rest" /\ viaList' = FALSE
  /\ wanted' = NoName /\ former' = NoName /\ chosen' = NoName
-----------------------------------------------------------------------------
ChangeTitle ==
  /\ doing = "rest" /\ titles < MaxTitles
  /\ \E t \in Title \ {title} : title' = t
  /\ titles' = titles + 1
  /\ UNCHANGED <<entity, diskVars, filed, linkVars, doing, jobVars, chosen, pastVars, troubles>>

StartEnsure ==
  /\ doing = "rest"
  /\ doing' = "locate"
  /\ viaList' \in BOOLEAN
  /\ wanted' = title
  /\ linkLost' = FALSE
  /\ strayed' = (strayed \/ torn \notin {NoName, title})
  /\ UNCHANGED <<userVars, entity, diskVars, filed, linkVars, former, chosen, torn, troubles>>

LocateUserEntity ==
  /\ doing = "locate"
  /\ Choose(wanted, IF entity \in {NoName, wanted} THEN "record" ELSE "rename")
  /\ UNCHANGED <<userVars, entity, diskVars, filed, linkVars, jobVars, pastVars, troubles>>

(* The file store never renames onto something that exists; the job then   *)
(* keeps the old name, as after any other failure of the rename.           *)
Rename ==
  /\ doing = "rename" /\ entity \in dirs /\ wanted \notin dirs \cup taken
  /\ dirs' = (dirs \ {entity}) \cup {wanted}
  /\ taken' = taken \ {entity}
  /\ place' = Moved(place, entity, wanted)
  /\ doing' = "rewrite"
  /\ UNCHANGED <<userVars, entity, filed, linkVars, jobVars, chosen, pastVars, troubles>>

KeepName ==
  /\ doing = "rename" /\ entity \in dirs
  /\ \/ wanted \in dirs \cup taken /\ UNCHANGED troubles
     \/ Trouble
  /\ Choose(entity, "record")
  /\ UNCHANGED <<userVars, entity, diskVars, filed, linkVars, jobVars, pastVars>>

(* A missing directory counts as renamed before a crash, so the rows are   *)
(* rewritten nevertheless.                                                 *)
SourceGone ==
  /\ doing = "rename" /\ entity \notin dirs
  /\ doing' = "rewriteGone"
  /\ UNCHANGED <<userVars, entity, diskVars, filed, linkVars, jobVars, chosen, pastVars,
                 troubles>>

RewriteDownloadPathPrefix ==
  /\ doing \in {"rewrite", "rewriteGone"}
  /\ filed' = Moved(filed, entity, wanted)
  /\ torn' = NoName
  /\ doing' = "record"
  /\ UNCHANGED <<userVars, entity, diskVars, linkVars, jobVars, chosen, linkLost, strayed,
                 troubles>>

RewriteFails ==
  /\ doing = "rewrite" /\ Trouble
  /\ doing' = "rollback"
  /\ UNCHANGED <<userVars, entity, diskVars, filed, linkVars, jobVars, chosen, pastVars>>

Rollback ==
  /\ doing = "rollback"
  /\ dirs' = (dirs \ {wanted}) \cup {entity}
  /\ place' = Moved(place, wanted, entity)
  /\ EndJob
  /\ UNCHANGED <<userVars, entity, taken, filed, linkVars, pastVars, troubles>>

EnsureUserEntity ==
  /\ doing = "record"
  /\ entity' = chosen
  /\ doing' = "mkdir"
  /\ UNCHANGED <<userVars, diskVars, filed, linkVars, jobVars, chosen, pastVars, troubles>>

MkdirAll ==
  /\ doing = "mkdir"
  /\ dirs' = dirs \cup {chosen}
  /\ doing' = "refresh"
  /\ UNCHANGED <<userVars, entity, taken, place, filed, linkVars, jobVars, chosen,
                 pastVars, troubles>>
-----------------------------------------------------------------------------
(* refreshUserLinks, for the list the user is already linked in.           *)
NoLinks ==
  /\ doing = "refresh" /\ linkRow = NoName
  /\ doing' = "list"
  /\ UNCHANGED <<userVars, entity, diskVars, filed, linkVars, jobVars, chosen, pastVars,
                 troubles>>

RefreshLinkRow ==
  /\ doing = "refresh" /\ linkRow # NoName
  /\ former' = linkRow
  /\ linkRow' = chosen
  /\ doing' = "sync"
  /\ UNCHANGED <<userVars, entity, diskVars, filed, linkTo, viaList, wanted, chosen,
                 pastVars, troubles>>

(* The old link goes, best effort, and the new one is set.  Mutant: a link *)
(* that keeps its name is left alone.                                      *)
MutSyncLink ==
  /\ doing = "sync"
  /\ linkTo' = IF former = chosen THEN linkTo
               ELSE [linkTo EXCEPT ![former] = NoName, ![chosen] = chosen]
  /\ former' = NoName
  /\ doing' = "list"
  /\ UNCHANGED <<userVars, entity, diskVars, filed, linkRow, viaList, wanted, chosen,
                 pastVars, troubles>>

SyncLink ==
  /\ doing = "sync"
  /\ \E kept \in BOOLEAN :
       /\ kept => former # chosen /\ troubles < MaxTroubles
       /\ troubles' = IF kept THEN troubles + 1 ELSE troubles
       /\ linkTo' = [n \in Title |-> IF n = chosen THEN chosen
                                    ELSE IF n = former /\ ~kept THEN NoName ELSE linkTo[n]]
  /\ former' = NoName
  /\ doing' = "list"
  /\ UNCHANGED <<userVars, entity, diskVars, filed, linkRow, viaList, wanted, chosen, pastVars>>

(* ensureUserLink names the link after the title, whatever the directory   *)
(* is called; a link that fails is reported and the archive goes on.       *)
NotViaList ==
  /\ doing = "list" /\ ~viaList
  /\ doing' = "save"
  /\ UNCHANGED <<userVars, entity, diskVars, filed, linkVars, jobVars, chosen, pastVars,
                 troubles>>

EnsureUserLink ==
  /\ doing = "list" /\ viaList
  /\ linkRow' = wanted
  /\ doing' = "link"
  /\ UNCHANGED <<userVars, entity, diskVars, filed, linkTo, jobVars, chosen, pastVars, troubles>>

MakeUserLink ==
  /\ doing = "link"
  /\ \/ linkTo' = [linkTo EXCEPT ![wanted] = chosen] /\ UNCHANGED <<linkLost, troubles>>
     \/ Trouble /\ linkLost' = TRUE /\ UNCHANGED linkTo
  /\ doing' = "save"
  /\ UNCHANGED <<userVars, entity, diskVars, filed, linkRow, jobVars, chosen, torn, strayed>>
-----------------------------------------------------------------------------
(* A file is published in the directory and recorded (module MediaArchive  *)
(* has the steps between).                                                 *)
SaveFile(f) ==
  /\ doing = "save" /\ filed[f] = NoName
  /\ place' = [place EXCEPT ![f] = chosen]
  /\ filed' = [filed EXCEPT ![f] = chosen]
  /\ UNCHANGED <<userVars, entity, dirs, taken, linkVars, doing, jobVars, chosen, pastVars,
                 troubles>>

UserDone ==
  /\ doing = "save" /\ EndJob
  /\ UNCHANGED <<userVars, entity, diskVars, filed, linkVars, pastVars, troubles>>

(* The process dies, or a step fails and the user's turn ends, between any *)
(* two steps.                                                              *)
BreakOff ==
  /\ doing # "rest" /\ Trouble /\ EndJob
  /\ torn' = IF doing \in {"rewrite", "rollback"} THEN wanted ELSE torn
  /\ UNCHANGED <<userVars, entity, diskVars, filed, linkVars, linkLost, strayed>>

DirectoryNext ==
  \/ ChangeTitle \/ StartEnsure \/ LocateUserEntity
  \/ Rename \/ KeepName \/ SourceGone \/ RewriteDownloadPathPrefix \/ RewriteFails \/ Rollback
  \/ EnsureUserEntity \/ MkdirAll
  \/ NoLinks \/ RefreshLinkRow \/ SyncLink \/ NotViaList \/ EnsureUserLink \/ MakeUserLink
  \/ UserDone \/ BreakOff
  \/ \E f \in File : SaveFile(f)

DirectorySpec == DirectoryInit /\ [][DirectoryNext]_directoryVars
-----------------------------------------------------------------------------
(* The values the variables take.                                          *)
DirectoryTypeOK ==
  /\ title \in Title /\ titles \in 0..MaxTitles
  /\ entity \in AnyName /\ {dirs, taken} \subseteq SUBSET Title
  /\ place \in [File -> AnyName] /\ filed \in [File -> AnyName]
  /\ linkRow \in AnyName /\ linkTo \in [Title -> AnyName]
  /\ doing \in {"rest", "locate", "rename", "rewrite", "rewriteGone", "rollback", "record", "mkdir",
            "refresh", "sync", "list", "link", "save"}
  /\ viaList \in BOOLEAN
  /\ {wanted, former, chosen, torn} \subseteq AnyName
  /\ {linkLost, strayed} \subseteq BOOLEAN
  /\ troubles \in 0..MaxTroubles

(* When the job starts to save, every recorded file of the user is where   *)
(* its row says, and the list's link leads to the directory in use,        *)
(* whatever a crash or a failed step left of earlier renames; unless one   *)
(* of them was torn and the title changed again before it was mended.      *)
PathsLead ==
  doing = "save" /\ ~strayed =>
    /\ filed = place
    /\ linkRow # NoName /\ ~linkLost => linkTo[linkRow] = chosen
=============================================================================
