---------------------------- MODULE PosterCache ----------------------------
(***************************************************************************)
(* Posters of videos that the library fetches from X when a page shows     *)
(* them (serveDownloadPreview): on disk next to the video, remembered as   *)
(* failed for a while, or fetched.  Requests for one poster share a fetch  *)
(* (posterFetchSingleFlight), and only a few fetches go on at once.  What  *)
(* a request does is not given up when its browser goes away.              *)
(***************************************************************************)
EXTENDS Integers, FiniteSets

CONSTANTS
  Viewer,      \* requests at a time
  Poster,      \* paths of posters
  MaxFetches,  \* maxConcurrentPosterFetches
  Nobody       \* no call, no poster

ASSUME PosterAssumption == Nobody \notin Viewer \cup Poster /\ MaxFetches \in Nat \ {0}

VARIABLES
  shelf,     \* posters on disk
  failures,  \* posterFailures: posters with an entry
  flights,   \* flights[p]: who leads the call of p in posterFetchGroup
  view,      \* view[v]: the next step of request v
  want,      \* want[v]: its poster
  leader,    \* leader[v]: who leads the call that v waits for
  missed     \* the requests whose call ended with an error

posterVars == <<shelf, failures, flights, view, want, leader, missed>>

PosterInit ==
  /\ shelf = {} /\ failures = {} /\ flights = [p \in Poster |-> Nobody]
  /\ view = [v \in Viewer |-> "rest"]
  /\ want = [v \in Viewer |-> Nobody] /\ leader = [v \in Viewer |-> Nobody]
  /\ missed = {}

See(v, next) == view' = [view EXCEPT ![v] = next]

AskPoster(v, p) ==
  /\ view[v] = "rest"
  /\ want' = [want EXCEPT ![v] = p]
  /\ See(v, "stat")
  /\ UNCHANGED <<shelf, failures, flights, leader, missed>>

(* The request is answered.                                                *)
Served(v) ==
  /\ See(v, "rest")
  /\ want' = [want EXCEPT ![v] = Nobody]
  /\ missed' = missed \ {v}
  /\ UNCHANGED <<flights, leader>>

(* The file is served, or there is no video or no address to fetch from.   *)
StatPoster(v) ==
  /\ view[v] = "stat"
  /\ \/ Served(v)
     \/ /\ want[v] \notin shelf
        /\ See(v, "memo") /\ UNCHANGED <<flights, want, leader, missed>>
  /\ UNCHANGED <<shelf, failures>>

(* posterFailures.lookup.                                                  *)
LookUpFailure(v) ==
  /\ view[v] = "memo"
  /\ \/ want[v] \in failures /\ Served(v)
     \/ /\ want[v] \notin failures
        /\ See(v, "join") /\ UNCHANGED <<flights, want, leader, missed>>
  /\ UNCHANGED <<shelf, failures>>

(* posterFetchSingleFlight.Do, in one section under its mutex: the request *)
(* joins the call of its poster or leads a new one.  Mutant: it leads one  *)
(* in any case.                                                            *)
MutJoinFlight(v) ==
  /\ view[v] = "join"
  /\ flights' = [flights EXCEPT ![want[v]] = v]
  /\ See(v, "slot")
  /\ UNCHANGED <<shelf, failures, want, leader, missed>>

JoinFlight(v) ==
  /\ view[v] = "join"
  /\ IF flights[want[v]] = Nobody
     THEN /\ flights' = [flights EXCEPT ![want[v]] = v]
          /\ See(v, "slot")
          /\ UNCHANGED leader
     ELSE /\ leader' = [leader EXCEPT ![v] = flights[want[v]]]
          /\ See(v, "wait")
          /\ UNCHANGED flights
  /\ UNCHANGED <<shelf, failures, want, missed>>

(* fetchRemotePoster: one of the places, then the download.                *)
AcquireSlot(v) ==
  /\ view[v] = "slot"
  /\ Cardinality({w \in Viewer : view[w] = "fetch"}) < MaxFetches
  /\ See(v, "fetch")
  /\ UNCHANGED <<shelf, failures, flights, want, leader, missed>>

FetchPoster(v) ==
  /\ view[v] = "fetch"
  /\ shelf' = shelf \cup {want[v]}
  /\ See(v, "forget")
  /\ UNCHANGED <<failures, flights, want, leader, missed>>

(* No place comes free in time, X has no poster or none that is an image,  *)
(* the answer takes too long or the file cannot be written.                *)
FetchPosterFails(v) ==
  /\ view[v] \in {"slot", "fetch"}
  /\ missed' = missed \cup {v}
  /\ See(v, "forget")
  /\ UNCHANGED <<shelf, failures, flights, want, leader>>

(* The end of Do: the call leaves the table, then all who wait go on with  *)
(* its error.                                                              *)
ForgetFlight(v) ==
  /\ view[v] = "forget"
  /\ flights' = [flights EXCEPT ![want[v]] = Nobody]
  /\ See(v, "close")
  /\ UNCHANGED <<shelf, failures, want, leader, missed>>

CloseFlight(v) ==
  LET followers == {w \in Viewer : leader[w] = v} IN
  /\ view[v] = "close"
  /\ view' = [w \in Viewer |-> IF w \in followers \cup {v} THEN "note" ELSE view[w]]
  /\ leader' = [w \in Viewer |-> IF w \in followers THEN Nobody ELSE leader[w]]
  /\ missed' = IF v \in missed THEN missed \cup followers ELSE missed
  /\ UNCHANGED <<shelf, failures, flights, want>>

(* posterFailures.store or remove, by everyone who took part.              *)
NoteResult(v) ==
  /\ view[v] = "note"
  /\ failures' = IF v \in missed THEN failures \cup {want[v]} ELSE failures \ {want[v]}
  /\ Served(v)
  /\ UNCHANGED shelf

FailureExpires(p) ==
  /\ p \in failures
  /\ failures' = failures \ {p}
  /\ UNCHANGED <<shelf, flights, view, want, leader, missed>>

(* The poster is removed, or its directory renamed.                        *)
PosterGoes(p) ==
  /\ p \in shelf
  /\ shelf' = shelf \ {p}
  /\ UNCHANGED <<failures, flights, view, want, leader, missed>>

PosterNext ==
  \/ \E v \in Viewer :
       \/ \E p \in Poster : AskPoster(v, p)
       \/ StatPoster(v) \/ LookUpFailure(v) \/ JoinFlight(v) \/ AcquireSlot(v)
       \/ FetchPoster(v) \/ FetchPosterFails(v) \/ ForgetFlight(v) \/ CloseFlight(v)
       \/ NoteResult(v)
  \/ \E p \in Poster : FailureExpires(p) \/ PosterGoes(p)

PosterSpec == PosterInit /\ [][PosterNext]_posterVars
-----------------------------------------------------------------------------
(* The values the variables take.                                          *)
PosterTypeOK ==
  /\ shelf \subseteq Poster /\ failures \subseteq Poster
  /\ flights \in [Poster -> Viewer \cup {Nobody}]
  /\ view \in [Viewer -> {"rest", "stat", "memo", "join", "wait", "slot", "fetch", "forget",
                           "close", "note"}]
  /\ want \in [Viewer -> Poster \cup {Nobody}]
  /\ leader \in [Viewer -> Viewer \cup {Nobody}]
  /\ missed \subseteq Viewer

(* A poster is fetched by one request at a time, however many want it, and *)
(* whoever waits for a call waits for one that is about its own poster and *)
(* still has its leader, so that it will be told; a call that has ended is *)
(* never joined, although it ends in two steps.                            *)
OneFetch ==
  \A v \in Viewer :
    /\ view[v] \in {"slot", "fetch", "forget"} => flights[want[v]] = v
    /\ view[v] = "wait" =>
         /\ view[leader[v]] \in {"slot", "fetch", "forget", "close"}
         /\ want[leader[v]] = want[v]
=============================================================================
