---------------------------- MODULE MCLiveParts ----------------------------
(***************************************************************************)
(* Two parts of the program, each on its own, with the fairness of each:   *)
(* the keyed locks and the page's cache of the jobs.  A behaviour chooses  *)
(* one of them and the other stays as it is.                               *)
(***************************************************************************)
EXTENDS KeyLock, Dashboard

VARIABLE part   \* what runs: "locks" or "page"

partsVars == <<part, vars, dashVars>>

(* Where an initial state may be one of several, the part that does not    *)
(* run has one.  The page starts with one job, which is active.            *)
PartsInit ==
  /\ part \in {"locks", "page"}
  /\ Init /\ DashInit
  /\ part = "locks" \/ (key = [p \in Proc |-> CHOOSE k \in Key : TRUE]
                        /\ lk = [p \in Proc |-> CHOOSE e \in Entry : TRUE])
  /\ jobRow = IF part = "page"
              THEN [NoPage EXCEPT ![1] = [status |-> "active", version |-> 0]]
              ELSE NoPage

PartsNext ==
  /\ UNCHANGED part
  /\ \/ part = "locks" /\ Next /\ UNCHANGED dashVars
     \/ part = "page" /\ DashNext /\ UNCHANGED vars

(* KeyLock's Fairness and Dashboard's, each where it runs.                 *)
Locks(A) == part = "locks" /\ A
Page(A) == part = "page" /\ A
PartsFairness ==
  /\ \A p \in Proc : WF_vars(Locks(Release(p))) /\ SF_vars(Locks(Take(p)))
  /\ WF_dashVars(Page(Deliver)) /\ WF_dashVars(Page(ReceiveJob))
  /\ WF_dashVars(Page(PollJobs)) /\ WF_dashVars(Page(AnswerJobs))
  /\ WF_dashVars(Page(PollMeta)) /\ WF_dashVars(Page(AnswerMeta("meta")))
  /\ WF_dashVars(Page(FetchExtra)) /\ WF_dashVars(Page(AnswerMeta("extra")))
  /\ WF_dashVars(Page(Refresh)) /\ WF_dashVars(Page(Connect)) /\ WF_dashVars(Page(Open))

PartsFairSpec == PartsInit /\ [][PartsNext]_partsVars /\ PartsFairness

(* The values the variables of both parts take.                            *)
PartsTypeOK == TypeOK /\ DashTypeOK
=============================================================================
