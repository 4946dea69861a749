------------------------------ MODULE KeyLock -------------------------------
(***************************************************************************)
(* The keyed locks of jobs.Manager: lockMedia and lockUser (the same code  *)
(* over two tables), releaseKeyLock and abortKeyLock.  An entry of the     *)
(* table is a channel of capacity one that holds a token while nobody has  *)
(* the lock, and a count of holder and waiters; it is evicted with its     *)
(* last user.  An action is one section under the table's mutex or one     *)
(* receive from the channel; a caller sleeps between the two.              *)
(***************************************************************************)
EXTENDS Integers, FiniteSets

CONSTANTS
  Proc,    \* goroutines that lock
  Key,     \* media identities and content hashes, or user ids
  Entry,   \* keyLock objects on the heap
  None     \* no entry

ASSUME ProcAssumption == IsFiniteSet(Proc)
ASSUME EntryAssumption == None \notin Entry

VARIABLES
  table,    \* table[k]: the entry of key k
  token,    \* token[e]: the channel of e holds its token
  waiters,  \* waiters[e]: holder and waiters of e
  stage,    \* stage[p]: "idle", "waiting" for the token, "holding" it
  key,      \* key[p]: the key p waits for or holds
  lk        \* lk[p]: the entry p waits for or holds

vars == <<table, token, waiters, stage, key, lk>>

Users(e) == {p \in Proc : stage[p] # "idle" /\ lk[p] = e}

(* An object the program may allocate: nothing refers to it.               *)
Fresh(e) == Users(e) = {} /\ \A k \in Key : table[k] # e

Init ==
  /\ table = [k \in Key |-> None]
  /\ token = [e \in Entry |-> FALSE]
  /\ waiters = [e \in Entry |-> 0]
  /\ stage = [p \in Proc |-> "idle"]
  /\ key \in [Proc -> Key]
  /\ lk \in [Proc -> Entry]
-----------------------------------------------------------------------------
(* First section of lockMedia and lockUser: find or create the entry and   *)
(* count oneself.                                                          *)
Enter(p, k) ==
  /\ stage[p] = "idle"
  /\ \E e \in Entry :
       /\ IF table[k] = None
          THEN /\ Fresh(e)
               /\ table' = [table EXCEPT ![k] = e]
               /\ token' = [token EXCEPT ![e] = TRUE]
               /\ waiters' = [waiters EXCEPT ![e] = 1]
          ELSE /\ e = table[k]
               /\ waiters' = [waiters EXCEPT ![e] = @ + 1]
               /\ UNCHANGED <<table, token>>
       /\ lk' = [lk EXCEPT ![p] = e]
  /\ stage' = [stage EXCEPT ![p] = "waiting"]
  /\ key' = [key EXCEPT ![p] = k]

(* The select receives the token.                                          *)
Take(p) ==
  /\ stage[p] = "waiting" /\ token[lk[p]]
  /\ token' = [token EXCEPT ![lk[p]] = FALSE]
  /\ stage' = [stage EXCEPT ![p] = "holding"]
  /\ UNCHANGED <<table, waiters, key, lk>>

CountDown(p) ==
  /\ waiters' = [waiters EXCEPT ![lk[p]] = @ - 1]
  /\ stage' = [stage EXCEPT ![p] = "idle"]
  /\ UNCHANGED <<key, lk>>

Last(p) == waiters[lk[p]] - 1 <= 0
Evict(p) == table' = [table EXCEPT ![key[p]] = None] /\ UNCHANGED token

(* releaseKeyLock: the last one evicts the entry, another one puts the     *)
(* token back, which would block, with the mutex held, were the channel    *)
(* not empty.  Mutants: the entry is evicted whoever still waits; the      *)
(* token is not put back.                                                  *)
MutEvicts(p) ==
  /\ stage[p] = "holding"
  /\ CountDown(p)
  /\ table' = [table EXCEPT ![key[p]] = None]
  /\ token' = [token EXCEPT ![lk[p]] = ~Last(p)]

MutNoHandOver(p) ==
  /\ stage[p] = "holding"
  /\ CountDown(p)
  /\ IF Last(p) THEN Evict(p) ELSE UNCHANGED <<table, token>>

Release(p) ==
  /\ stage[p] = "holding"
  /\ CountDown(p)
  /\ IF Last(p)
     THEN Evict(p)
     ELSE ~token[lk[p]] /\ token' = [token EXCEPT ![lk[p]] = TRUE] /\ UNCHANGED table

(* abortKeyLock: the select saw ctx.Done, even if the token was there too. *)
(* Mutants: only a holder evicts; who gives up hands a token on, too.      *)
MutAbort(p) ==
  /\ stage[p] = "waiting"
  /\ CountDown(p)
  /\ UNCHANGED <<table, token>>

MutAbortHandsOver(p) ==
  /\ stage[p] = "waiting"
  /\ CountDown(p)
  /\ IF Last(p) THEN Evict(p) ELSE token' = [token EXCEPT ![lk[p]] = TRUE] /\ UNCHANGED table

Abort(p) ==
  /\ stage[p] = "waiting"
  /\ CountDown(p)
  /\ IF Last(p) THEN Evict(p) ELSE UNCHANGED <<table, token>>

Next ==
  \E p \in Proc :
    \/ \E k \in Key : Enter(p, k)
    \/ Take(p) \/ Release(p) \/ Abort(p)

(* A holder's calls have timeouts, so it releases.  Go serves receivers of *)
(* a channel in the order they came, so a waiter is not passed by for      *)
(* ever.  Callers owe neither a request nor patience.                      *)
Fairness == \A p \in Proc : WF_vars(Release(p)) /\ SF_vars(Take(p))

Spec == Init /\ [][Next]_vars
FairSpec == Spec /\ Fairness
-----------------------------------------------------------------------------
(* The values the variables take.                                          *)
TypeOK ==
  /\ table \in [Key -> Entry \cup {None}]
  /\ token \in [Entry -> BOOLEAN]
  /\ waiters \in [Entry -> Nat]
  /\ stage \in [Proc -> {"idle", "waiting", "holding"}]
  /\ key \in [Proc -> Key]
  /\ lk \in [Proc -> Entry]

(* The table holds an entry for exactly the keys somebody holds or waits   *)
(* for: it does not grow with the media and users ever seen, although      *)
(* releases, cancelled waits and newcomers meet in any order.              *)
NoLeak == \A k \in Key : table[k] # None <=> \E p \in Proc : stage[p] # "idle" /\ key[p] = k

(* A release never blocks on the channel while it holds the table's mutex, *)
(* which would stop every other caller for good.                           *)
ReleaseIsPrompt == \A p \in Proc : stage[p] = "holding" => ~token[lk[p]]

(* Eviction and re-creation of entries are invisible: see module KeyMutex. *)
Mutex == INSTANCE KeyMutex
KeepsMutex == Mutex!Spec

(* A waiter gets the lock or gives up: no token is lost between a holder   *)
(* that leaves, waiters that give up and an entry that is evicted.         *)
WaitEnds == \A p \in Proc : stage[p] = "waiting" ~> stage[p] # "waiting"
=============================================================================
