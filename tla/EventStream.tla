---------------------------- MODULE EventStream ----------------------------
(***************************************************************************)
(* The event bus of package jobs, the handler of /api/events that relays a *)
(* subscriber's channel to a browser, and the password changes that revoke *)
(* sessions.  A session is the account row and the revocation channel that *)
(* requireLogin reads together; both are numbered by the password changes  *)
(* before them.  An event is the number of revocations before its          *)
(* publication: what it says does not matter here.                         *)
(***************************************************************************)
EXTENDS Integers, Sequences, FiniteSets

CONSTANTS
  Request,         \* goroutines that serve requests
  MaxSubscribers,  \* maxEventSubscribers
  BufferSize,      \* subscriberBuffer
  MaxChanges       \* bound: password changes

ASSUME StreamAssumption ==
  MaxSubscribers \in Nat /\ BufferSize \in Nat /\ MaxChanges \in Nat

VARIABLES
  sessionKey,   \* the number of the account row's session_key
  authChanged,  \* the number of the current revocation channel
  revoked,      \* the revocation channels that are closed
  authMu,       \* TRUE while a password change holds the write lock
  phase,        \* phase[r]: the next step of request r
  account,      \* account[r]: the session key of the row r authenticated with
  watched,      \* watched[r]: the revocation channel of r's session
  subscribers,  \* the requests whose channel is registered at the bus
  isOpen,       \* isOpen[r]: the last channel of r has not been closed
  buffer,       \* buffer[r]: the events in it
  event,        \* event[r]: the event r received last
  busClosed,    \* the process is shutting down
  panicked      \* a closed channel was closed again or sent to

sessionVars == <<sessionKey, authChanged, revoked, authMu>>
busVars     == <<subscribers, isOpen, buffer, busClosed, panicked>>
streamVars  == <<sessionVars, busVars, phase, account, watched, event>>

StreamInit ==
  /\ sessionKey = 0 /\ authChanged = 0 /\ revoked = {} /\ authMu = FALSE
  /\ phase = [r \in Request |-> "none"]
  /\ account = [r \in Request |-> 0]
  /\ watched = [r \in Request |-> 0]
  /\ subscribers = {}
  /\ isOpen = [r \in Request |-> FALSE]
  /\ buffer = [r \in Request |-> <<>>]
  /\ event = [r \in Request |-> 0]
  /\ busClosed = FALSE /\ panicked = FALSE

GoOn(r, next) == phase' = [phase EXCEPT ![r] = next]
Revoked(r) == watched[r] \in revoked
-----------------------------------------------------------------------------
(* Sessions.                                                               *)

(* A request with a token of the current key passes.                       *)
RequireLogin(r) ==
  /\ phase[r] = "none" /\ ~authMu
  /\ account' = [account EXCEPT ![r] = sessionKey]
  /\ watched' = [watched EXCEPT ![r] = authChanged]
  /\ GoOn(r, "authorized")
  /\ UNCHANGED <<sessionVars, busVars, event>>

(* changePassword inside the write lock: the row is updated if it still    *)
(* has the key the request authenticated with, and then the channel is     *)
(* closed and replaced.                                                    *)
UpdateAccountPassword(r) ==
  /\ phase[r] = "authorized" /\ ~authMu /\ sessionKey < MaxChanges
  /\ account[r] = sessionKey
  /\ sessionKey' = sessionKey + 1
  /\ authMu' = TRUE
  /\ GoOn(r, "revoking")
  /\ UNCHANGED <<authChanged, revoked, busVars, account, watched, event>>

CloseAuthChanged(r) ==
  /\ phase[r] = "revoking"
  /\ revoked' = revoked \cup {authChanged}
  /\ authChanged' = authChanged + 1
  /\ authMu' = FALSE
  /\ GoOn(r, "none")
  /\ UNCHANGED <<sessionKey, busVars, account, watched, event>>

(* The update matches no row or fails, or another request is served.       *)
ServeOther(r) ==
  /\ phase[r] = "authorized"
  /\ GoOn(r, "none")
  /\ UNCHANGED <<sessionVars, busVars, account, watched, event>>
-----------------------------------------------------------------------------
(* The bus; each operation holds its mutex throughout.                     *)
Subscribe(r) ==
  /\ phase[r] = "authorized"
  /\ IF busClosed \/ Cardinality(subscribers) >= MaxSubscribers
     THEN GoOn(r, "none") /\ UNCHANGED busVars
     ELSE /\ subscribers' = subscribers \cup {r}
          /\ isOpen' = [isOpen EXCEPT ![r] = TRUE]
          /\ buffer' = [buffer EXCEPT ![r] = <<>>]
          /\ GoOn(r, "greet")
          /\ UNCHANGED <<busClosed, panicked>>
  /\ UNCHANGED <<sessionVars, account, watched, event>>

(* What closing the channels of rs does to them; a closed one panics.      *)
CloseChannels(rs) ==
  /\ isOpen' = [r \in Request |-> isOpen[r] /\ r \notin rs]
  /\ panicked' = (panicked \/ \E r \in rs : ~isOpen[r])

Unsubscribe(r) ==
  /\ phase[r] = "leaving"
  /\ subscribers' = subscribers \ {r}
  /\ CloseChannels({r} \cap subscribers)
  /\ GoOn(r, "none")
  /\ UNCHANGED <<sessionVars, buffer, busClosed, account, watched, event>>

CloseAll ==
  /\ busClosed' = TRUE
  /\ subscribers' = {}
  /\ CloseChannels(subscribers)
  /\ UNCHANGED <<sessionVars, buffer, phase, account, watched, event>>

(* A full buffer loses the event.                                          *)
PublishEvent ==
  /\ subscribers # {}
  /\ panicked' = (panicked \/ \E r \in subscribers : ~isOpen[r])
  /\ buffer' = [r \in Request |->
       IF r \in subscribers /\ Len(buffer[r]) < BufferSize
       THEN Append(buffer[r], authChanged)
       ELSE buffer[r]]
  /\ UNCHANGED <<sessionVars, subscribers, isOpen, busClosed, phase, account, watched, event>>
-----------------------------------------------------------------------------
(* The handler: a look at the revocation channel before every write, and a *)
(* select between what may end the stream and the next event.              *)
Greet(r) ==
  /\ phase[r] = "greet"
  /\ GoOn(r, IF Revoked(r) THEN "leaving" ELSE "select")
  /\ UNCHANGED <<sessionVars, busVars, account, watched, event>>

(* The request's context, the revocation, a ping that fails, or the end of *)
(* a closed channel.  Nothing but the revocation is certain to be seen.    *)
EndStream(r) ==
  /\ phase[r] \in {"select", "writing"}
  /\ GoOn(r, "leaving")
  /\ UNCHANGED <<sessionVars, busVars, account, watched, event>>

ReceiveEvent(r) ==
  /\ phase[r] = "select" /\ buffer[r] # <<>>
  /\ event' = [event EXCEPT ![r] = Head(buffer[r])]
  /\ buffer' = [buffer EXCEPT ![r] = Tail(@)]
  /\ GoOn(r, "received")
  /\ UNCHANGED <<sessionVars, subscribers, isOpen, busClosed, panicked, account, watched>>

(* Mutant: the select's own case for the revocation is thought enough.     *)
MutCheckRevoked(r) ==
  /\ phase[r] = "received"
  /\ GoOn(r, "writing")
  /\ UNCHANGED <<sessionVars, busVars, account, watched, event>>

CheckRevoked(r) ==
  /\ phase[r] = "received"
  /\ GoOn(r, IF Revoked(r) THEN "leaving" ELSE "writing")
  /\ UNCHANGED <<sessionVars, busVars, account, watched, event>>

WriteEvent(r) ==
  /\ phase[r] = "writing"
  /\ GoOn(r, "select")
  /\ UNCHANGED <<sessionVars, busVars, account, watched, event>>

StreamNext ==
  \/ CloseAll \/ PublishEvent
  \/ \E r \in Request :
       \/ RequireLogin(r) \/ UpdateAccountPassword(r) \/ CloseAuthChanged(r) \/ ServeOther(r)
       \/ Subscribe(r) \/ Unsubscribe(r)
       \/ Greet(r) \/ EndStream(r) \/ ReceiveEvent(r) \/ CheckRevoked(r) \/ WriteEvent(r)

StreamSpec == StreamInit /\ [][StreamNext]_streamVars
-----------------------------------------------------------------------------
(* The values the variables take.                                          *)
StreamTypeOK ==
  /\ sessionKey \in 0..MaxChanges /\ authChanged \in 0..MaxChanges
  /\ revoked \subseteq 0..MaxChanges /\ authMu \in BOOLEAN
  /\ phase \in [Request -> {"none", "authorized", "revoking", "greet", "select", "received",
                             "writing", "leaving"}]
  /\ account \in [Request -> 0..MaxChanges] /\ watched \in [Request -> 0..MaxChanges]
  /\ subscribers \subseteq Request
  /\ isOpen \in [Request -> BOOLEAN]
  /\ buffer \in [Request -> Seq(0..MaxChanges)] /\ \A r \in Request : Len(buffer[r]) <= BufferSize
  /\ event \in [Request -> 0..MaxChanges]
  /\ busClosed \in BOOLEAN /\ panicked \in BOOLEAN

(* An event published after a password change is never written to a stream *)
(* that a session of before opened, whatever was buffered, received or     *)
(* being written when the change came; and streams that end, a shutdown    *)
(* and publications never close a channel twice or send on a closed one.   *)
StreamSafe ==
  /\ ~panicked
  /\ \A r \in Request : phase[r] = "writing" => event[r] <= watched[r]
=============================================================================
