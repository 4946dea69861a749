---------------------------- MODULE JobLifecycle ----------------------------
(***************************************************************************)
(* What the task centre promises about a job, without the steps that keep  *)
(* the promise: one lease at a time, the longest waiting job first; only   *)
(* the holder of the lease moves a job on to an outcome; a user's job that *)
(* is over stays as it is; work a crash interrupted waits again.           *)
(***************************************************************************)
EXTENDS Integers, FiniteSets

CONSTANTS Job, Outcome

VARIABLES
  state,   \* state[j] \in State
  auto,    \* the rows of the automatic retry job, which are reused
  lease    \* the job being worked on: at most one

vars == <<state, auto, lease>>

Open    == {"waiting", "running"}
Settled == Outcome \cup {"canceled"}
State   == {"none"} \cup Open \cup Settled

Set(j, s) == state' = [state EXCEPT ![j] = s]

Init == state = [j \in Job |-> "none"] /\ auto = {} /\ lease = {}

Submit(j) ==
  /\ state[j] = "none" /\ j \notin lease
  /\ Set(j, "waiting")
  /\ auto' \in {auto, auto \cup {j}}
  /\ UNCHANGED lease

(* The lease goes to the oldest waiting job.  A job whose lease is lost    *)
(* before it is handed over is left running without one.                   *)
Start(j) ==
  /\ lease = {} /\ state[j] = "waiting"
  /\ \A i \in Job : state[i] = "waiting" => j <= i
  /\ Set(j, "running")
  /\ lease' \in {{}, {j}}
  /\ UNCHANGED auto

Work(j) ==
  /\ j \in lease /\ state[j] \in Open
  /\ Set(j, "running")
  /\ UNCHANGED <<auto, lease>>

Finish(j, o) ==
  /\ j \in lease /\ state[j] \in Open
  /\ Set(j, o)
  /\ UNCHANGED <<auto, lease>>

Cancel(j) ==
  /\ state[j] \in Open
  /\ Set(j, "canceled")
  /\ UNCHANGED <<auto, lease>>

Release(j) ==
  /\ lease' = lease \ {j}
  /\ UNCHANGED <<state, auto>>

Reopen(j) ==
  /\ j \in auto /\ state[j] \in Settled
  /\ Set(j, "waiting")
  /\ UNCHANGED <<auto, lease>>

Forget(j) ==
  /\ j \in auto \ lease /\ state[j] \in Settled
  /\ Set(j, "none")
  /\ auto' \in {auto, auto \ {j}}
  /\ UNCHANGED lease

Crash == lease' = {} /\ UNCHANGED <<state, auto>>

Recover ==
  /\ lease = {}
  /\ state' = [j \in Job |-> IF state[j] = "running" THEN "waiting" ELSE state[j]]
  /\ UNCHANGED <<auto, lease>>

Next ==
  \/ \E j \in Job : \/ Submit(j) \/ Start(j) \/ Work(j) \/ Cancel(j)
                    \/ Release(j) \/ Reopen(j) \/ Forget(j)
                    \/ \E o \in Outcome : Finish(j, o)
  \/ Crash \/ Recover

Spec == Init /\ [][Next]_vars
=============================================================================
