---------------------------- MODULE MCSafeParts ----------------------------
(***************************************************************************)
(* Five parts of the program, each on its own: the saving of a media, the  *)
(* cached index of the library, its posters, the directory of a user, and  *)
(* the stream of events.  A behaviour chooses one of them and the others   *)
(* stay as they are.                                                       *)
(***************************************************************************)
EXTENDS MCMediaArchive, LibraryIndex, PosterCache, UserDirectory, EventStream

VARIABLE part   \* what runs: "archive", "index", "posters", "directory" or "stream"

partsVars == <<part, vars, libraryVars, posterVars, directoryVars, streamVars>>

(* Where an initial state may be one of several, the parts that do not run *)
(* have one.                                                               *)
PartsInit ==
  /\ part \in {"archive", "index", "posters", "directory", "stream"}
  /\ Init /\ LibraryInit /\ PosterInit /\ DirectoryInit /\ StreamInit
  /\ part = "archive" \/ item = [w \in Worker |-> i1]
  /\ part = "directory" \/ title = CHOOSE t \in Title : TRUE

PartsNext ==
  /\ UNCHANGED part
  /\ \/ part = "archive" /\ Next
        /\ UNCHANGED <<libraryVars, posterVars, directoryVars, streamVars>>
     \/ part = "index" /\ LibraryNext
        /\ UNCHANGED <<vars, posterVars, directoryVars, streamVars>>
     \/ part = "posters" /\ PosterNext
        /\ UNCHANGED <<vars, libraryVars, directoryVars, streamVars>>
     \/ part = "directory" /\ DirectoryNext
        /\ UNCHANGED <<vars, libraryVars, posterVars, streamVars>>
     \/ part = "stream" /\ StreamNext
        /\ UNCHANGED <<vars, libraryVars, posterVars, directoryVars>>

PartsSpec == PartsInit /\ [][PartsNext]_partsVars

(* The values the variables of the parts take.                             *)
PartsTypeOK == TypeOK /\ LibraryTypeOK /\ PosterTypeOK /\ DirectoryTypeOK /\ StreamTypeOK
=============================================================================
