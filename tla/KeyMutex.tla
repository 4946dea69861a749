------------------------------ MODULE KeyMutex ------------------------------
(***************************************************************************)
(* What lockMedia and lockUser promise their callers: per key, one holder  *)
(* at a time; a waiter may give up.                                        *)
(***************************************************************************)
CONSTANTS
  Proc,    \* goroutines that lock
  Key      \* media identities and content hashes, or user ids

VARIABLES
  stage,   \* stage[p]: "idle", "waiting", "holding"
  key      \* key[p]: the key p waits for or holds (the last one when idle)

vars == <<stage, key>>

Holds(p, k) == stage[p] = "holding" /\ key[p] = k

Init ==
  /\ stage = [p \in Proc |-> "idle"]
  /\ key \in [Proc -> Key]

Goto(p, s) == stage' = [stage EXCEPT ![p] = s]

Ask(p, k) ==
  /\ stage[p] = "idle"
  /\ Goto(p, "waiting")
  /\ key' = [key EXCEPT ![p] = k]

Acquire(p) ==
  /\ stage[p] = "waiting"
  /\ \A q \in Proc : ~Holds(q, key[p])
  /\ Goto(p, "holding")
  /\ UNCHANGED key

Leave(p, from) ==
  /\ stage[p] = from
  /\ Goto(p, "idle")
  /\ UNCHANGED key

Next ==
  \E p \in Proc :
    \/ \E k \in Key : Ask(p, k)
    \/ Acquire(p)
    \/ Leave(p, "waiting")    \* the caller's context is cancelled
    \/ Leave(p, "holding")    \* release

(* One holder per key.                                                     *)
MutualExclusion ==
  \A p, q \in Proc : \A k \in Key : Holds(p, k) /\ Holds(q, k) => p = q

Spec == Init /\ [][Next]_vars
=============================================================================
