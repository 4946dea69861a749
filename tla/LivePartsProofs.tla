--------------------------- MODULE LivePartsProofs ---------------------------
(***************************************************************************)
(* The keyed locks implement a mutex per key, never leak an entry and      *)
(* never block in a release, for any set of callers, keys and entries.  The*)
(* page shows rows the server had and never goes back to an earlier one,   *)
(* for any number of jobs, updates and faults and any size of the channel. *)
(***************************************************************************)
EXTENDS MCLiveParts, FiniteSetTheorems, SequenceTheorems, TLAPS

(* Whoever uses an entry uses the one the table holds for its key: nobody  *)
(* stays behind on an evicted entry.                                       *)
Registered == \A p \in Proc : stage[p] # "idle" => table[key[p]] = lk[p]

(* No entry serves two keys.                                               *)
Distinct == \A k, l \in Key : table[k] = table[l] /\ table[k] # None => k = l

(* The count is the number of users, so who counts down to zero is alone.  *)
CountedUsers == \A e \in Entry : waiters[e] = Cardinality(Users(e))

(* A holder holds the only token of its entry.                             *)
OneHolder == \A p, q \in Proc :
  stage[p] = "holding" /\ stage[q] = "holding" /\ lk[p] = lk[q] => p = q

LockInv == /\ TypeOK /\ Registered /\ Distinct /\ CountedUsers
           /\ OneHolder /\ ReleaseIsPrompt /\ NoLeak

-----------------------------------------------------------------------------
LEMMA UsersFinite ==
  ASSUME NEW e
  PROVE  IsFiniteSet(Users(e)) /\ Cardinality(Users(e)) \in Nat
<1>1. Users(e) \subseteq Proc
  BY DEF Users
<1> QED
  BY <1>1, ProcAssumption, FS_Subset, FS_CardinalityType

(* What Last says: the others are gone, or not.                            *)
LEMMA LastIsAlone ==
  ASSUME TypeOK, CountedUsers, NEW p \in Proc, stage[p] # "idle"
  PROVE  /\ waiters[lk[p]] - 1 = Cardinality(Users(lk[p]) \ {p})
         /\ waiters[lk[p]] - 1 \in Nat
         /\ Last(p) <=> Users(lk[p]) = {p}
<1> DEFINE U == Users(lk[p])
<1>1. p \in U /\ lk[p] \in Entry
  BY DEF Users, TypeOK
<1>2. IsFiniteSet(U) /\ Cardinality(U) \in Nat
  BY UsersFinite
<1>3. IsFiniteSet(U \ {p}) /\ Cardinality(U \ {p}) = Cardinality(U) - 1
  BY <1>1, <1>2, FS_RemoveElement
<1>4. Cardinality(U \ {p}) \in Nat
  BY <1>3, FS_CardinalityType
<1>5. Cardinality(U \ {p}) = 0 <=> U \ {p} = {}
  BY <1>3, FS_EmptySet
<1>6. waiters[lk[p]] = Cardinality(U)
  BY <1>1 DEF CountedUsers
<1> HIDE DEF U
<1>7. Last(p) <=> U \ {p} = {}
  BY <1>2, <1>3, <1>4, <1>5, <1>6 DEF Last
<1>8. QED
  BY <1>1, <1>3, <1>4, <1>6, <1>7 DEF U

LEMMA InitLockInv == Init => LockInv
<1> SUFFICES ASSUME Init PROVE LockInv
  OBVIOUS
<1>1. TypeOK
  BY DEF Init, TypeOK
<1>2. \A e \in Entry : Users(e) = {}
  BY DEF Init, Users
<1>3. CountedUsers
  BY <1>2, FS_EmptySet DEF CountedUsers, Init
<1> QED
  BY <1>1, <1>3, EntryAssumption
     DEF Init, LockInv, Registered, Distinct, OneHolder, ReleaseIsPrompt, NoLeak

-----------------------------------------------------------------------------
LEMMA EnterKeeps ==
  ASSUME LockInv, NEW p \in Proc, NEW k \in Key, Enter(p, k)
  PROVE  LockInv'
<1>1. PICK e \in Entry :
        /\ IF table[k] = None
           THEN /\ Fresh(e)
                /\ table' = [table EXCEPT ![k] = e]
                /\ token' = [token EXCEPT ![e] = TRUE]
                /\ waiters' = [waiters EXCEPT ![e] = 1]
           ELSE /\ e = table[k]
                /\ waiters' = [waiters EXCEPT ![e] = @ + 1]
                /\ UNCHANGED <<table, token>>
        /\ lk' = [lk EXCEPT ![p] = e]
  BY DEF Enter
<1>2. /\ stage[p] = "idle"
      /\ stage' = [stage EXCEPT ![p] = "waiting"]
      /\ key' = [key EXCEPT ![p] = k]
  BY DEF Enter
<1>3. TypeOK'
  <2>1. CASE table[k] = None
    <3>1. table' \in [Key -> Entry \cup {None}]
      BY <1>1, <2>1 DEF LockInv, TypeOK
    <3>2. token' \in [Entry -> BOOLEAN]
      <4>1. token' = [token EXCEPT ![e] = TRUE] /\ token \in [Entry -> BOOLEAN]
        BY <1>1, <2>1 DEF LockInv, TypeOK
      <4>2. QED
        BY <4>1
    <3>3. waiters' \in [Entry -> Nat]
      BY <1>1, <2>1 DEF LockInv, TypeOK
    <3>4. stage' \in [Proc -> {"idle", "waiting", "holding"}]
      BY <1>2 DEF LockInv, TypeOK
    <3>5. key' \in [Proc -> Key] /\ lk' \in [Proc -> Entry]
      BY <1>1, <1>2 DEF LockInv, TypeOK
    <3>6. QED
      BY <3>1, <3>2, <3>3, <3>4, <3>5 DEF TypeOK
  <2>2. CASE table[k] # None
    <3>1. waiters[e] + 1 \in Nat
      BY DEF LockInv, TypeOK
    <3>2. QED
      BY <1>1, <1>2, <2>2, <3>1 DEF LockInv, TypeOK
  <2>3. QED
    BY <2>1, <2>2
<1>4. table'[k] = e /\ e # None
  BY <1>1, EntryAssumption DEF LockInv, TypeOK
<1>5. /\ Users(e)' = Users(e) \cup {p}
      /\ p \notin Users(e)
      /\ \A f \in Entry \ {e} : Users(f)' = Users(f)
  BY <1>1, <1>2 DEF Users, LockInv, TypeOK
<1>6. Registered'
  BY <1>1, <1>2, <1>4, EntryAssumption DEF LockInv, TypeOK, Registered, Fresh, Users
<1>7. Distinct'
  BY <1>1, EntryAssumption DEF LockInv, TypeOK, Distinct, Fresh
<1>8. CountedUsers'
  <2>1. IsFiniteSet(Users(e)) /\ Cardinality(Users(e)) \in Nat
    BY UsersFinite
  <2>2. Cardinality(Users(e) \cup {p}) = Cardinality(Users(e)) + 1
    BY <2>1, <1>5, FS_AddElement
  <2>3. waiters'[e] = Cardinality(Users(e)) + 1
    <3>1. CASE table[k] = None
      <4>1. Users(e) = {}
        BY <1>1, <3>1 DEF Fresh
      <4>2. Cardinality(Users(e)) = 0
        BY <4>1, FS_EmptySet
      <4>3. QED
        BY <1>1, <3>1, <4>2 DEF LockInv, TypeOK
    <3>2. CASE table[k] # None
      BY <1>1, <3>2 DEF LockInv, TypeOK, CountedUsers
    <3>3. QED
      BY <3>1, <3>2
  <2>4. \A f \in Entry \ {e} : waiters'[f] = waiters[f]
    BY <1>1 DEF LockInv, TypeOK
  <2>5. QED
    BY <1>5, <2>2, <2>3, <2>4 DEF LockInv, CountedUsers
<1>9. OneHolder'
  BY <1>1, <1>2 DEF LockInv, TypeOK, OneHolder
<1>10. ReleaseIsPrompt'
  BY <1>1, <1>2 DEF LockInv, TypeOK, ReleaseIsPrompt, Fresh, Users
<1>11. NoLeak'
  BY <1>1, <1>2, <1>4, EntryAssumption DEF LockInv, TypeOK, NoLeak
<1> QED
  BY <1>3, <1>6, <1>7, <1>8, <1>9, <1>10, <1>11 DEF LockInv

LEMMA TakeKeeps ==
  ASSUME LockInv, NEW p \in Proc, Take(p)
  PROVE  LockInv'
<1>1. TypeOK'
  BY DEF Take, LockInv, TypeOK
<1>2. \A e \in Entry : Users(e)' = Users(e)
  BY DEF Take, Users, LockInv, TypeOK
<1>3. CountedUsers'
  BY <1>2 DEF Take, LockInv, CountedUsers
<1>4. Registered' /\ Distinct' /\ NoLeak'
  BY DEF Take, LockInv, TypeOK, Registered, Distinct, NoLeak
<1>5. \A q \in Proc : stage[q] = "holding" => lk[q] # lk[p]
  BY DEF Take, LockInv, ReleaseIsPrompt
<1>6. OneHolder' /\ ReleaseIsPrompt'
  BY <1>5 DEF Take, LockInv, TypeOK, OneHolder, ReleaseIsPrompt
<1> QED
  BY <1>1, <1>3, <1>4, <1>6 DEF LockInv

(* The common part of releaseKeyLock and abortKeyLock.                     *)
LEMMA LeaveKeeps ==
  ASSUME LockInv, NEW p \in Proc, Release(p) \/ Abort(p)
  PROVE  LockInv'
<1>0. PICK e \in Entry : e = lk[p]
  BY DEF LockInv, TypeOK
<1>1. stage[p] # "idle" /\ CountDown(p)
  BY DEF Release, Abort
<1>2. table[key[p]] = e /\ e # None
  BY <1>0, <1>1, EntryAssumption DEF LockInv, Registered
<1>3. /\ waiters[e] - 1 = Cardinality(Users(e) \ {p})
      /\ waiters[e] - 1 \in Nat
      /\ Last(p) <=> Users(e) = {p}
  BY <1>0, <1>1, LastIsAlone DEF LockInv
<1>4. /\ Last(p) => Evict(p)
      /\ ~Last(p) => UNCHANGED table
  BY DEF Release, Abort
<1>5. TypeOK'
  BY <1>0, <1>1, <1>3, EntryAssumption
     DEF LockInv, TypeOK, Release, Abort, CountDown, Evict
<1>6. /\ Users(e)' = Users(e) \ {p}
      /\ \A f \in Entry \ {e} : Users(f)' = Users(f)
  BY <1>0, <1>1 DEF CountDown, Users, LockInv, TypeOK
<1>7. CountedUsers'
  <2>1. waiters'[e] = waiters[e] - 1 /\ \A f \in Entry \ {e} : waiters'[f] = waiters[f]
    BY <1>0, <1>1 DEF CountDown, LockInv, TypeOK
  <2>2. QED
    BY <1>3, <1>6, <2>1 DEF LockInv, CountedUsers
<1>8. \A q \in Proc \ {p} : stage[q] # "idle" /\ key[q] = key[p] => q \in Users(e)
  BY <1>0, <1>2 DEF LockInv, Registered, Users
<1>9. Registered'
  <2>1. ASSUME NEW q \in Proc, stage'[q] # "idle"
        PROVE  q # p /\ stage[q] # "idle" /\ table[key[q]] = lk[q]
    BY <1>1, <2>1 DEF CountDown, LockInv, TypeOK, Registered
  <2>2. ASSUME NEW q \in Proc, stage'[q] # "idle"
        PROVE  table'[key[q]] = table[key[q]]
    BY <1>0, <1>3, <1>4, <1>8, <2>1, <2>2 DEF Evict, LockInv, TypeOK
  <2>3. QED
    BY <1>1, <2>1, <2>2 DEF Registered, CountDown
<1>10. Distinct'
  BY <1>4 DEF Evict, LockInv, TypeOK, Distinct
<1>11. OneHolder'
  BY <1>1 DEF CountDown, LockInv, TypeOK, OneHolder
<1>12. ReleaseIsPrompt'
  <2>1. ASSUME NEW q \in Proc, stage'[q] = "holding"
        PROVE  q # p /\ stage[q] = "holding" /\ lk'[q] = lk[q] /\ ~token[lk[q]]
    BY <1>1, <2>1 DEF CountDown, LockInv, TypeOK, ReleaseIsPrompt
  <2>2. ASSUME NEW q \in Proc, stage'[q] = "holding", stage[p] = "holding"
        PROVE  lk[q] # lk[p]
    BY <2>1, <2>2 DEF LockInv, OneHolder
  <2>3. QED
    BY <2>1, <2>2 DEF Release, Abort, Evict, LockInv, TypeOK, ReleaseIsPrompt
<1>13. NoLeak'
  <2>1. CASE Last(p)
    <3>1. table' = [table EXCEPT ![key[p]] = None]
      BY <1>4, <2>1 DEF Evict
    <3>2. \A q \in Proc \ {p} : stage[q] # "idle" => key[q] # key[p]
      BY <1>0, <1>3, <1>8, <2>1 DEF Users
    <3>3. QED
      BY <1>1, <3>1, <3>2 DEF CountDown, LockInv, TypeOK, NoLeak
  <2>2. CASE ~Last(p)
    <3>1. PICK q \in Users(e) : q # p
      BY <1>0, <1>1, <1>3, <2>2 DEF Users
    <3>2. q \in Proc /\ stage[q] # "idle" /\ lk[q] = e /\ key[q] \in Key /\ key[p] \in Key
      BY DEF Users, LockInv, TypeOK
    <3>3. key[q] = key[p]
      BY <1>0, <1>2, <3>2 DEF LockInv, Registered, Distinct
    <3>4. stage'[q] # "idle" /\ key' = key /\ table' = table
      BY <1>1, <1>4, <2>2, <3>1, <3>2 DEF CountDown, LockInv, TypeOK
    <3>5. \A r \in Proc \ {p} : stage'[r] = stage[r]
      BY <1>1 DEF CountDown, LockInv, TypeOK
    <3>6. ASSUME NEW k \in Key
          PROVE  (\E r \in Proc : stage'[r] # "idle" /\ key[r] = k)
                   <=> \E r \in Proc : stage[r] # "idle" /\ key[r] = k
      BY <1>1, <3>2, <3>3, <3>4, <3>5 DEF CountDown, LockInv, TypeOK
    <3>7. QED
      BY <3>4, <3>6 DEF LockInv, NoLeak
  <2>3. QED
    BY <2>1, <2>2
<1> QED
  BY <1>5, <1>7, <1>9, <1>10, <1>11, <1>12, <1>13 DEF LockInv

LEMMA StepLockInv == LockInv /\ [Next]_vars => LockInv'
<1> SUFFICES ASSUME LockInv, [Next]_vars PROVE LockInv'
  OBVIOUS
<1>1. CASE UNCHANGED vars
  BY <1>1 DEF vars, LockInv, TypeOK, Registered, Distinct, CountedUsers, Users, OneHolder,
     ReleaseIsPrompt, NoLeak
<1>2. ASSUME NEW p \in Proc, NEW k \in Key, Enter(p, k) PROVE LockInv'
  BY <1>2, EnterKeeps
<1>3. ASSUME NEW p \in Proc, Take(p) PROVE LockInv'
  BY <1>3, TakeKeeps
<1>4. ASSUME NEW p \in Proc, Release(p) \/ Abort(p) PROVE LockInv'
  BY <1>4, LeaveKeeps
<1> QED
  BY <1>1, <1>2, <1>3, <1>4 DEF Next

(* The inductive invariant of lockMedia and lockUser.                      *)
THEOREM LockInvCorrect == Spec => []LockInv
BY InitLockInv, StepLockInv, PTL DEF Spec

(* The variables keep their types, the count of users never goes negative. *)
THEOREM TypeCorrect == Spec => []TypeOK
<1>1. LockInv => TypeOK
  BY DEF LockInv
<1> QED
  BY <1>1, LockInvCorrect, PTL

(* The table of locks never leaks an entry and never loses one in use.     *)
THEOREM NoLeakCorrect == Spec => []NoLeak
<1>1. LockInv => NoLeak
  BY DEF LockInv
<1> QED
  BY <1>1, LockInvCorrect, PTL

(* releaseKeyLock never blocks while it holds the table's mutex.           *)
THEOREM ReleaseCorrect == Spec => []ReleaseIsPrompt
<1>1. LockInv => ReleaseIsPrompt
  BY DEF LockInv
<1> QED
  BY <1>1, LockInvCorrect, PTL

-----------------------------------------------------------------------------
LEMMA InitMaps == Init => Mutex!Init
BY DEF Init, Mutex!Init

(* A step on entries is a step of the abstract mutex; the token is free    *)
(* only if nobody holds the key.                                           *)
LEMMA StepMaps == LockInv /\ [Next]_vars => [Mutex!Next]_(Mutex!vars)
<1> SUFFICES ASSUME LockInv, [Next]_vars PROVE Mutex!Next \/ UNCHANGED Mutex!vars
  OBVIOUS
<1>1. CASE UNCHANGED vars
  BY <1>1 DEF vars, Mutex!vars
<1>2. ASSUME NEW p \in Proc, NEW k \in Key, Enter(p, k) PROVE Mutex!Next
  BY <1>2 DEF Enter, Mutex!Next, Mutex!Ask, Mutex!Goto
<1>3. ASSUME NEW p \in Proc, Take(p) PROVE Mutex!Next
  <2>1. ASSUME NEW q \in Proc, Mutex!Holds(q, key[p]) PROVE FALSE
    BY <1>3, <2>1 DEF Mutex!Holds, Take, LockInv, Registered, ReleaseIsPrompt
  <2>2. QED
    BY <1>3, <2>1 DEF Take, Mutex!Next, Mutex!Acquire, Mutex!Goto
<1>4. ASSUME NEW p \in Proc, Release(p) \/ Abort(p) PROVE Mutex!Next
  BY <1>4 DEF Release, Abort, CountDown, Mutex!Next, Mutex!Leave, Mutex!Goto
<1> QED
  BY <1>1, <1>2, <1>3, <1>4 DEF Next

(* The keyed locks implement one mutex per key: eviction, re-creation and  *)
(* cancelled waits never let two goroutines work on one key.               *)
THEOREM MutexCorrect == Spec => KeepsMutex
BY InitMaps, StepMaps, LockInvCorrect, PTL DEF Spec, KeepsMutex, Mutex!Spec

(* No two goroutines hold one key.                                         *)
THEOREM ExclusionCorrect == Spec => []Mutex!MutualExclusion
<1>1. LockInv => Mutex!MutualExclusion
  BY DEF LockInv, Registered, OneHolder, Mutex!MutualExclusion, Mutex!Holds
<1> QED
  BY <1>1, LockInvCorrect, PTL

-----------------------------------------------------------------------------
(* The page.  An event as the server makes it.                             *)
Message == [job : Job, row : Row \ {Absent}, isNew : BOOLEAN,
            meta : Stats \cup {NoMeta}, wantsMeta : BOOLEAN]
PageTypes == DashTypeOK /\ outbox \subseteq Message /\ wire \in Seq(Message)

(* A copy of a row is one that the server had: older, or the same.         *)
Past(row, j) ==
  /\ row.version <= jobRow[j].version
  /\ row.version = jobRow[j].version => row = jobRow[j]

(* The jobs of a list are the first ones.                                  *)
FirstOnes(page) == \A i, j \in Job : i <= j /\ page[j] # Absent => page[i] # Absent

PageIsPast   == \A j \in Job : Past(jobsPage[j], j)
AnswerIsPast ==
  fetching["jobs"] = "asked" => FirstOnes(pageAnswer) /\ \A j \in Job : Past(pageAnswer[j], j)
EventsArePast ==
  /\ \A e \in outbox : Past(e.row, e.job)
  /\ \A i \in DOMAIN wire : Past(wire[i].row, wire[i].job)

PageInv == PageTypes /\ FirstOnes(jobRow) /\ PageIsPast /\ AnswerIsPast /\ EventsArePast

(* No poll, late answer or late event shows a job as it was before, or not *)
(* at all.                                                                 *)
GoesOn(old, new) == new.version >= old.version /\ (old # Absent => new # Absent)
PageNeverBack == [][\A j \in Job : GoesOn(jobsPage[j], jobsPage'[j])]_dashVars

LEMMA CountsAreNumbers == ASSUME NEW page PROVE StatsOf(page) \in Stats
<1>1. ASSUME NEW s PROVE Counted(page, s) \in Nat
  <2>1. IsFiniteSet(Job)
    BY DashAssumption, FS_Interval DEF Job
  <2>2. {j \in Job : page[j].status \in s} \in SUBSET Job
    OBVIOUS
  <2> QED BY <2>1, <2>2, FS_Subset, FS_CardinalityType DEF Counted
<1> HIDE DEF Counted
<1> QED BY <1>1 DEF StatsOf, Stats

LEMMA ShiftedCounts ==
  ASSUME NEW stats \in Stats, NEW from, NEW to
  PROVE  Shift(stats, from, to) \in Stats
BY DEF Shift, Stats

LEMMA OneMoreCounted ==
  ASSUME NEW stats \in Stats
  PROVE  [stats EXCEPT !.total = @ + 1, !.active = @ + 1] \in Stats
<1> DEFINE n == stats.total + 1
           m == stats.active + 1
<1>1. n \in Nat /\ m \in Nat
  BY DEF Stats
<1> HIDE DEF n, m
<1>2. [stats EXCEPT !.total = n, !.active = m] \in Stats
  BY <1>1 DEF Stats
<1> QED BY <1>2 DEF n, m

(* While an update is left no row has had all of them.                     *)
LEMMA VersionsLeft ==
  ASSUME jobRow \in [Job -> Row], Updates < MaxUpdates, NEW j \in Job
  PROVE  jobRow[j].version + 1 \in 0..MaxUpdates
<1> DEFINE V == 1..MaxUpdates
           U == {u \in Job \X V : u[2] <= jobRow[u[1]].version}
           f == [v \in V |-> <<j, v>>]
<1>1. IsFiniteSet(Job \X V)
  <2>1. IsFiniteSet(Job) /\ IsFiniteSet(V)
    BY DashAssumption, FS_Interval DEF Job
  <2> HIDE DEF V
  <2> QED BY <2>1, FS_Product
<1>2. IsFiniteSet(U) /\ Cardinality(U) \in Nat
  <2>1. U \in SUBSET (Job \X V) OBVIOUS
  <2> HIDE DEF U, V
  <2> QED BY <1>1, <2>1, FS_Subset, FS_CardinalityType
<1>3. jobRow[j].version \in 0..MaxUpdates
  BY DashAssumption DEF Row, Absent
<1>4. ASSUME jobRow[j].version = MaxUpdates PROVE FALSE
  <2>1. \A v \in V : <<j, v>> \in U
    BY <1>4, DashAssumption
  <2>2. f \in Injection(V, U)
    <3>1. f \in [V -> U] BY <2>1
    <3>2. \A a, b \in V : f[a] = f[b] => a = b OBVIOUS
    <3> QED BY <3>1, <3>2 DEF Injection, IsInjective
  <2>3. Cardinality(V) = MaxUpdates
    BY DashAssumption, FS_Interval
  <2>4. Cardinality(V) <= Cardinality(U)
    <3> HIDE DEF f, U, V
    <3> QED BY <1>2, <2>2, FS_Injection
  <2> HIDE DEF V
  <2>5. Updates = Cardinality(U) BY DEF Updates, V
  <2> HIDE DEF U
  <2> QED BY <1>2, <2>3, <2>4, <2>5, DashAssumption
<1> HIDE DEF U, V, f
<1> QED BY <1>3, <1>4, DashAssumption

LEMMA MessageIsEvent ==
  /\ \A e \in Message : IsEvent(e)
  /\ \A j \in Job, row \in Row \ {Absent}, isNew \in BOOLEAN : Event(j, row, isNew) \in Message
<1>1. \A e \in Message : IsEvent(e)
  BY DEF Message, IsEvent
<1>2. ASSUME NEW j \in Job, NEW row \in Row \ {Absent}, NEW isNew \in BOOLEAN
      PROVE  Event(j, row, isNew) \in Message
  <2>1. (isNew \/ row.status \in Outcome) \in BOOLEAN
    OBVIOUS
  <2>2. NoMeta \in Stats \cup {NoMeta}
    OBVIOUS
  <2> HIDE DEF Stats
  <2> QED BY <2>1, <2>2 DEF Message, Event
<1> QED BY <1>1, <1>2

LEMMA RowVersion == \A r \in Row : r.version \in 0..MaxUpdates
BY DashAssumption DEF Row, Absent

LEMMA InitPageInv == DashInit => PageInv
<1> SUFFICES ASSUME DashInit PROVE PageInv
  OBVIOUS
<1>1. PICK n \in 0..MaxJobs : \E status \in [1..n -> Outcome \cup {"active"}] :
        jobRow = [j \in Job |-> IF j <= n THEN [status |-> status[j], version |-> 0] ELSE Absent]
  BY DEF DashInit
<1>2. PICK status \in [1..n -> Outcome \cup {"active"}] :
        jobRow = [j \in Job |-> IF j <= n THEN [status |-> status[j], version |-> 0] ELSE Absent]
  BY <1>1
<1>3. /\ jobRow \in [Job -> Row] /\ NoPage \in [Job -> Row]
      /\ \A j \in Job : jobRow[j] # Absent <=> j <= n
  <2>1. \A j \in Job : j <= n => j \in 1..n /\ status[j] \in Outcome \cup {"active"}
    BY DashAssumption DEF Job
  <2>2. 0 \in 0..MaxUpdates /\ "absent" \notin Outcome \cup {"active"}
    BY DashAssumption
  <2> QED BY <1>2, <2>1, <2>2 DEF Row, Bucket, Absent, NoPage
<1>4. FirstOnes(jobRow)
  BY <1>3, DashAssumption DEF FirstOnes, Job
<1>5. PageTypes
  <2>1. wire \in Seq(Message) /\ Len(wire) <= WireSize /\ DOMAIN wire = {}
    BY DashAssumption, EmptySeq DEF DashInit
  <2>2. dashMeta \in Stats /\ metaAnswer \in [Fetch -> Stats]
    BY CountsAreNumbers DEF DashInit, NoStats
  <2>3. faults \in 0..MaxFaults
    BY DashAssumption DEF DashInit
  <2> QED BY <1>3, <2>1, <2>2, <2>3 DEF PageTypes, DashTypeOK, DashInit, Fetch, Query
<1>6. PageIsPast /\ EventsArePast
  <2>1. \A j \in Job : jobRow[j].version \in 0..MaxUpdates
    BY <1>3, RowVersion
  <2> QED BY <2>1 DEF DashInit, PageIsPast, EventsArePast, Past
<1> QED BY <1>4, <1>5, <1>6 DEF PageInv, AnswerIsPast, DashInit, Fetch, Query

(* What a copy is does not change but for the worse: the row goes on.      *)
LEMMA PastStays ==
  ASSUME PageTypes, NEW j \in Job, NEW row \in Row, jobRow[j].version < row.version,
         jobRow' = [jobRow EXCEPT ![j] = row]
  PROVE  /\ \A r \in Row, i \in Job : Past(r, i) => Past(r, i)'
         /\ Past(row, j)'
<1>1. jobRow \in [Job -> Row] /\ jobRow'[j] = row
  BY DEF PageTypes, DashTypeOK
<1>2. \A r \in Row : r.version \in Int
  BY RowVersion
<1>3. \A r \in Row : r.version <= r.version
  BY <1>2
<1>4. \A r \in Row : r.version <= jobRow[j].version => r.version < row.version
  BY <1>1, <1>2
<1>5. \A r \in Row, i \in Job : Past(r, i) => Past(r, i)'
  BY <1>1, <1>2, <1>4 DEF Past
<1> QED BY <1>1, <1>3, <1>5 DEF Past

LEMMA CommitKeeps ==
  ASSUME PageInv, NEW j \in Job, NEW row \in Row \ {Absent}, NEW events \in SUBSET Message,
         Commit(j, row, events), jobRow[j].version < row.version,
         \A e \in events : e.row = row /\ e.job = j,
         jobRow[j] = Absent => \A i \in 1..(j - 1) : jobRow[i] # Absent
  PROVE  PageInv' /\ UNCHANGED jobsPage
<1>1. PageTypes /\ jobRow \in [Job -> Row] /\ jobRow' = [jobRow EXCEPT ![j] = row]
  BY DEF PageInv, PageTypes, DashTypeOK, Commit
<1>2. /\ outbox' = outbox \cup events
      /\ UNCHANGED <<pageVars, fetchVars, connVars, refreshTimer, missed, faults>>
  BY DEF Commit
<1>3. PageTypes'
  <2>1. jobRow' \in [Job -> Row] BY <1>1
  <2>2. outbox' \subseteq Message /\ \A e \in outbox' : IsEvent(e)
    BY <1>1, <1>2, MessageIsEvent DEF PageTypes
  <2> QED BY <1>1, <1>2, <2>1, <2>2
          DEF PageTypes, DashTypeOK, pageVars, fetchVars, connVars, Stats, IsEvent
<1>4. FirstOnes(jobRow')
  <2>1. \A i \in Job : i < j /\ jobRow[j] = Absent => i \in 1..(j - 1)
    BY DashAssumption DEF Job
  <2> QED BY <1>1, <2>1, DashAssumption DEF PageInv, FirstOnes, Job
<1>5. /\ \A r \in Row, i \in Job : Past(r, i) => Past(r, i)'
      /\ Past(row, j)'
  BY <1>1, PastStays
<1>6. PageIsPast'
  BY <1>1, <1>2, <1>5 DEF PageInv, PageIsPast, PageTypes, DashTypeOK, pageVars
<1>7. AnswerIsPast'
  BY <1>1, <1>2, <1>5 DEF PageInv, AnswerIsPast, PageTypes, DashTypeOK, fetchVars, FirstOnes
<1>8. EventsArePast'
  <2>1. \A e \in Message : e.row \in Row /\ e.job \in Job
    BY DEF Message
  <2>2. \A e \in outbox : Past(e.row, e.job)'
    BY <1>1, <1>5, <2>1 DEF PageInv, EventsArePast, PageTypes
  <2>3. \A e \in events : Past(e.row, e.job)'
    BY <1>5
  <2>4. \A i \in DOMAIN wire : wire[i] \in Message
    BY <1>1, ElementOfSeq, LenProperties DEF PageTypes
  <2>5. \A i \in DOMAIN wire : Past(wire[i].row, wire[i].job)'
    BY <1>2, <1>5, <2>1, <2>4 DEF PageInv, EventsArePast, connVars
  <2> QED BY <1>2, <2>2, <2>3, <2>5 DEF EventsArePast, connVars
<1> QED BY <1>2, <1>3, <1>4, <1>6, <1>7, <1>8 DEF PageInv, pageVars

LEMMA ServerKeeps ==
  ASSUME PageInv, NEW j \in Job, NewJob(j) \/ UpdateJob(j) \/ ResetJob(j)
  PROVE  PageInv' /\ UNCHANGED jobsPage
<1>1. jobRow \in [Job -> Row] /\ "active" # "absent" /\ "absent" \notin Outcome
  BY DashAssumption DEF PageInv, PageTypes, DashTypeOK
<1>2. ASSUME NEW s \in Bucket, Updates < MaxUpdates
      PROVE  /\ Newer(j, s) \in Row \ {Absent}
             /\ jobRow[j].version < Newer(j, s).version
  <2>1. jobRow[j].version + 1 \in 0..MaxUpdates
    BY <1>1, <1>2, VersionsLeft
  <2>2. jobRow[j].version \in Int BY <1>1, RowVersion
  <2>3. s # "absent" BY <1>1 DEF Bucket
  <2> QED BY <2>1, <2>2, <2>3 DEF Newer, Row, Absent
<1>3. ASSUME NEW s \in Bucket, NEW isNew \in BOOLEAN,
             Commit(j, Newer(j, s), {Event(j, Newer(j, s), isNew)}) \/ Commit(j, Newer(j, s), {}),
             jobRow[j] = Absent => \A i \in 1..(j - 1) : jobRow[i] # Absent
      PROVE  PageInv' /\ UNCHANGED jobsPage
  <2> DEFINE row == Newer(j, s)
  <2>1. row \in Row \ {Absent} /\ jobRow[j].version < row.version
    BY <1>2, <1>3 DEF Commit
  <2>2. Event(j, row, isNew) \in Message
    BY <2>1, MessageIsEvent
  <2>3. Event(j, row, isNew).row = row /\ Event(j, row, isNew).job = j
    BY DEF Event
  <2> HIDE DEF row
  <2> QED BY <1>3, <2>1, <2>2, <2>3, CommitKeeps DEF row
<1>4. CASE NewJob(j)
  BY <1>3, <1>4 DEF NewJob, Bucket
<1>5. CASE UpdateJob(j)
  <2>1. jobRow[j] # Absent BY <1>1, <1>5 DEF UpdateJob, Absent
  <2>2. PICK s \in Outcome \cup {"active"} :
          Commit(j, Newer(j, s), {Event(j, Newer(j, s), FALSE)}) \/ Commit(j, Newer(j, s), {})
    BY <1>5 DEF UpdateJob
  <2> QED BY <1>3, <2>1, <2>2 DEF Bucket
<1>6. CASE ResetJob(j)
  <2>1. jobRow[j] # Absent BY <1>1, <1>6 DEF ResetJob, Absent
  <2> QED BY <1>3, <1>6, <2>1 DEF ResetJob, Bucket
<1> QED BY <1>4, <1>5, <1>6

LEMMA WireMessages ==
  ASSUME wire \in Seq(Message)
  PROVE  \A i \in DOMAIN wire : wire[i] \in Message
BY ElementOfSeq, LenProperties

LEMMA PublicationKeeps ==
  ASSUME PageInv, NEW e \in outbox, AttachMeta(e) \/ PublishJob(e)
  PROVE  PageInv' /\ UNCHANGED jobsPage
<1>1. /\ UNCHANGED <<jobRow, pageVars, fetchVars, link, pending, refreshTimer, faults>>
      /\ e \in Message
  BY DEF AttachMeta, PublishJob, connVars, PageInv, PageTypes
<1>2. outbox' \subseteq Message /\ \A m \in outbox' : Past(m.row, m.job)
  <2>1. CASE AttachMeta(e)
    <3>1. PICK stats \in {StatsOf(jobRow), NoMeta} :
            outbox' = (outbox \ {e}) \cup {[e EXCEPT !.meta = stats, !.wantsMeta = FALSE]}
      BY <2>1 DEF AttachMeta
    <3> DEFINE m == [e EXCEPT !.meta = stats, !.wantsMeta = FALSE]
    <3>2. stats \in Stats \cup {NoMeta}
      BY CountsAreNumbers
    <3>3. m \in Message /\ m.row = e.row /\ m.job = e.job
      <4> HIDE DEF Stats, Row
      <4> QED BY <1>1, <3>2 DEF Message
    <3> HIDE DEF m
    <3> QED BY <3>1, <3>3 DEF PageInv, PageTypes, EventsArePast, m
  <2>2. CASE PublishJob(e)
    BY <2>2 DEF PublishJob, PageInv, PageTypes, EventsArePast
  <2> QED BY <2>1, <2>2
<1>3. /\ wire' \in Seq(Message) /\ Len(wire') <= WireSize
      /\ \A i \in DOMAIN wire' : ~wire'[i].wantsMeta /\ Past(wire'[i].row, wire'[i].job)
  <2>1. CASE wire' = wire
    BY <2>1 DEF PageInv, PageTypes, DashTypeOK, EventsArePast
  <2>2. CASE wire' = Append(wire, e) /\ Len(wire) < WireSize /\ ~e.wantsMeta
    <3>1. wire \in Seq(Message) /\ WireSize \in Nat
      BY DashAssumption DEF PageInv, PageTypes
    <3>2. /\ wire' \in Seq(Message) /\ Len(wire') = Len(wire) + 1
          /\ \A i \in 1..Len(wire) + 1 : wire'[i] = IF i <= Len(wire) THEN wire[i] ELSE e
      BY <1>1, <2>2, <3>1
    <3>3. DOMAIN wire = 1..Len(wire) /\ DOMAIN wire' = 1..Len(wire) + 1 /\ Len(wire) \in Nat
      BY <3>1, <3>2, LenProperties
    <3>4. \A i \in DOMAIN wire' : wire'[i] = e \/ (i \in DOMAIN wire /\ wire'[i] = wire[i])
      BY <3>2, <3>3
    <3> QED BY <2>2, <3>1, <3>2, <3>3, <3>4 DEF PageInv, PageTypes, DashTypeOK, EventsArePast
  <2> QED BY <2>1, <2>2 DEF AttachMeta, PublishJob, connVars
<1>4. missed' \subseteq {"early", "dropped", "unknown", "failed"}
  BY DEF AttachMeta, PublishJob, PageInv, PageTypes, DashTypeOK
<1>5. PageTypes'
  <2>1. (\A m \in outbox' : IsEvent(m)) /\ \A i \in DOMAIN wire' : IsEvent(wire'[i])
    BY <1>2, <1>3, WireMessages, MessageIsEvent, ElementOfSeq, LenProperties
  <2> HIDE DEF Stats
  <2> QED BY <1>1, <1>2, <1>3, <1>4, <2>1
          DEF PageInv, PageTypes, DashTypeOK, pageVars, fetchVars, IsEvent
<1> QED BY <1>1, <1>2, <1>3, <1>5
        DEF PageInv, FirstOnes, PageIsPast, AnswerIsPast, EventsArePast, Past, pageVars, fetchVars

(* What a query that is asked, or is over, leaves of the fetches.          *)
FetchTypes ==
  /\ pageAnswer \in [Job -> Row] /\ metaAnswer \in [Fetch -> Stats]
  /\ fetching \in [Fetch -> {"idle", "timer", "asked"}]
  /\ \A q \in Query : fetching[q] # "timer"

LEMMA AskedKeeps ==
  ASSUME PageInv, NEW qs \in SUBSET Fetch, Asked(qs), UNCHANGED jobRow
  PROVE  FetchTypes' /\ AnswerIsPast'
<1>1. FetchTypes'
  BY CountsAreNumbers DEF PageInv, PageTypes, DashTypeOK, FetchTypes, Asked, Query, Fetch
<1>2. \A j \in Job : Past(jobRow[j], j)
  BY RowVersion DEF PageInv, PageTypes, DashTypeOK, Past
<1> QED BY <1>1, <1>2 DEF PageInv, Asked, AnswerIsPast, FirstOnes, Past, Fetch, Query

LEMMA OverKeeps ==
  ASSUME PageInv, NEW q \in Fetch, Over(q), UNCHANGED jobRow
  PROVE  FetchTypes' /\ AnswerIsPast'
<1>1. NoPage \in [Job -> Row]
  BY DEF NoPage, Row
<1>2. FetchTypes'
  BY <1>1, CountsAreNumbers
     DEF PageInv, PageTypes, DashTypeOK, FetchTypes, Over, Query, Fetch, NoStats
<1> QED BY <1>2 DEF PageInv, PageTypes, DashTypeOK, Over, AnswerIsPast, FirstOnes, Past, Fetch, Query

(* Steps after which no row is another and no event is new.                *)
LEMMA QuietKeeps ==
  ASSUME PageInv, FetchTypes', AnswerIsPast', UNCHANGED jobRow, outbox' \subseteq outbox,
         wire' \in {wire, <<>>} \/ (wire # <<>> /\ wire' = Tail(wire)),
         jobsPage' \in [Job -> Row], PageIsPast', dashMeta' \in Stats,
         link' \in {"connecting", "subscribed", "open"},
         pending' \in BOOLEAN, refreshTimer' \in BOOLEAN,
         missed' \subseteq {"early", "dropped", "unknown", "failed"}, faults' \in 0..MaxFaults
  PROVE  PageInv'
<1>1. wire \in Seq(Message) /\ Len(wire) \in Nat /\ Len(wire) <= WireSize
  BY LenProperties DEF PageInv, PageTypes, DashTypeOK
<1>2. /\ wire' \in Seq(Message) /\ Len(wire') <= Len(wire)
      /\ \A i \in DOMAIN wire' : \E k \in DOMAIN wire : wire'[i] = wire[k]
  <2>1. CASE wire' = wire
    BY <1>1, <2>1
  <2>2. CASE wire' = <<>>
    BY <1>1, <2>2, EmptySeq
  <2>3. CASE wire # <<>> /\ wire' = Tail(wire)
    <3>1. Tail(wire) \in Seq(Message) /\ Len(Tail(wire)) = Len(wire) - 1
      BY <1>1, <2>3, HeadTailProperties
    <3>2. \A i \in 1..Len(wire) - 1 : Tail(wire)[i] = wire[i + 1]
      BY <1>1, <2>3
    <3>3. DOMAIN wire = 1..Len(wire) /\ DOMAIN Tail(wire) = 1..Len(wire) - 1
      BY <1>1, <3>1, LenProperties
    <3>4. \A i \in DOMAIN Tail(wire) : i + 1 \in DOMAIN wire /\ Tail(wire)[i] = wire[i + 1]
      BY <1>1, <3>2, <3>3
    <3>5. Len(Tail(wire)) <= Len(wire)
      BY <1>1, <3>1
    <3> QED BY <2>3, <3>1, <3>4, <3>5
  <2> QED BY <2>1, <2>2, <2>3
<1> HIDE DEF Stats
<1>3. PageTypes'
  <2>1. \A i \in DOMAIN wire' : IsEvent(wire'[i])
    BY <1>2, WireMessages, MessageIsEvent, ElementOfSeq, LenProperties
  <2>2. Len(wire') <= WireSize
    BY <1>1, <1>2, LenProperties, DashAssumption
  <2>3. \A i \in DOMAIN wire' : ~wire'[i].wantsMeta
    BY <1>2 DEF PageInv, PageTypes, DashTypeOK
  <2>4. \A e \in outbox' : IsEvent(e)'
    BY DEF PageInv, PageTypes, DashTypeOK, IsEvent
  <2> QED BY <1>2, <2>1, <2>2, <2>3, <2>4
          DEF PageInv, PageTypes, DashTypeOK, FetchTypes, IsEvent
<1>4. EventsArePast'
  BY <1>2 DEF PageInv, EventsArePast, Past
<1> QED BY <1>3, <1>4 DEF PageInv, FirstOnes

LEMMA PageTypesOf ==
  PageInv => /\ jobsPage \in [Job -> Row] /\ PageIsPast /\ AnswerIsPast /\ FetchTypes
             /\ dashMeta \in Stats /\ link \in {"connecting", "subscribed", "open"}
             /\ pending \in BOOLEAN /\ refreshTimer \in BOOLEAN
             /\ missed \subseteq {"early", "dropped", "unknown", "failed"} /\ faults \in 0..MaxFaults
<1> HIDE DEF Stats
<1> QED BY DEF PageInv, PageTypes, DashTypeOK, FetchTypes

(* The page keeps what is newer than an answer.                            *)
LEMMA MergeGoesOn ==
  ASSUME PageInv, fetching["jobs"] = "asked"
  PROVE  /\ MergeNewerJobs(pageAnswer) \in [Job -> Row]
         /\ \A j \in Job : LET r == MergeNewerJobs(pageAnswer)[j] IN
              Past(r, j) /\ GoesOn(jobsPage[j], r)
<1>1. /\ FirstOnes(pageAnswer) /\ pageAnswer \in [Job -> Row] /\ jobsPage \in [Job -> Row]
      /\ \A j \in Job : Past(pageAnswer[j], j) /\ Past(jobsPage[j], j)
  BY DEF PageInv, PageTypes, DashTypeOK, AnswerIsPast, PageIsPast
<1>2. ASSUME NEW j \in Job
      PROVE  LET r == MergeNewerJobs(pageAnswer)[j] IN
               /\ r = jobsPage[j] \/ r = pageAnswer[j]
               /\ GoesOn(jobsPage[j], r)
  <2>1. pageAnswer[j] = Absent => \A i \in j..MaxJobs : pageAnswer[i] = Absent
    BY <1>1, DashAssumption DEF FirstOnes, Job
  <2>2. pageAnswer[j].version \in Nat /\ jobsPage[j].version \in Nat
    BY <1>1, RowVersion, DashAssumption
  <2> QED BY <2>1, <2>2 DEF MergeNewerJobs, GoesOn
<1>3. MergeNewerJobs(pageAnswer) \in [Job -> Row]
  BY <1>1 DEF MergeNewerJobs, Row
<1> QED BY <1>1, <1>2, <1>3

LEMMA FetchKeeps ==
  ASSUME PageInv,
         PollJobs \/ PollMeta \/ Refresh \/ FetchExtra \/ Connect \/ Open
  PROVE  PageInv' /\ UNCHANGED jobsPage
<1>1. UNCHANGED <<jobRow, outbox, jobsPage, dashMeta, wire, faults>>
  BY DEF PollJobs, PollMeta, Refresh, FetchExtra, Connect, Open, serverVars, pageVars, connVars
<1>2. FetchTypes' /\ AnswerIsPast'
  <2>1. CASE UNCHANGED fetchVars
    BY <1>1, <2>1, PageTypesOf DEF FetchTypes, AnswerIsPast, FirstOnes, Past, fetchVars
  <2>2. ASSUME NEW qs \in SUBSET Fetch, Asked(qs) PROVE FetchTypes' /\ AnswerIsPast'
    BY <1>1, <2>2, AskedKeeps
  <2> QED BY <2>1, <2>2 DEF PollJobs, PollMeta, Refresh, FetchExtra, Connect, Open, Fetch, Query,
                           fetchVars
<1>3. PageIsPast'
  BY <1>1 DEF PageInv, PageIsPast, Past
<1>4. /\ link' \in {"connecting", "subscribed", "open"}
      /\ pending' \in BOOLEAN /\ refreshTimer' \in BOOLEAN
      /\ missed' \subseteq {"early", "dropped", "unknown", "failed"}
  BY PageTypesOf DEF PollJobs, PollMeta, Refresh, FetchExtra, Connect, Open, connVars
<1> QED BY <1>1, <1>2, <1>3, <1>4, PageTypesOf, QuietKeeps

LEMMA OverSteps ==
  ASSUME PageInv, NEW q \in Fetch, AnswerMeta(q) \/ FetchFails(q)
  PROVE  PageInv' /\ UNCHANGED jobsPage
<1>1. UNCHANGED <<jobRow, outbox, jobsPage, connVars>> /\ Over(q)
  BY DEF AnswerMeta, FetchFails, serverVars, pageVars
<1>2. FetchTypes' /\ AnswerIsPast'
  BY <1>1, OverKeeps
<1>3. PageIsPast'
  BY <1>1 DEF PageInv, PageIsPast, Past
<1>4. dashMeta' \in Stats
  BY PageTypesOf DEF AnswerMeta, FetchFails, pageVars, FetchTypes
<1>5. /\ refreshTimer' \in BOOLEAN
      /\ missed' \subseteq {"early", "dropped", "unknown", "failed"}
  BY PageTypesOf DEF AnswerMeta, FetchFails
<1>6. faults' = faults \/ (faults < MaxFaults /\ faults' = faults + 1)
  BY DEF AnswerMeta, FetchFails
<1>7. faults' \in 0..MaxFaults
  BY <1>6, PageTypesOf, DashAssumption
<1> QED BY <1>1, <1>2, <1>3, <1>4, <1>5, <1>7, PageTypesOf, QuietKeeps DEF connVars

LEMMA AnswerJobsKeeps ==
  ASSUME PageInv, AnswerJobs
  PROVE  PageInv' /\ \A j \in Job : GoesOn(jobsPage[j], jobsPage'[j])
<1>1. /\ UNCHANGED <<jobRow, outbox, dashMeta, connVars, refreshTimer, missed, faults>> /\ Over("jobs")
      /\ jobsPage' = MergeNewerJobs(pageAnswer) /\ fetching["jobs"] = "asked"
  BY DEF AnswerJobs, serverVars
<1>2. FetchTypes' /\ AnswerIsPast'
  BY <1>1, OverKeeps DEF Fetch, Query
<1>3. jobsPage' \in [Job -> Row] /\ \A j \in Job : GoesOn(jobsPage[j], jobsPage'[j])
  BY <1>1, MergeGoesOn
<1>4. PageIsPast'
  BY <1>1, MergeGoesOn DEF PageIsPast, Past
<1> QED BY <1>1, <1>2, <1>3, <1>4, PageTypesOf, QuietKeeps DEF connVars

LEMMA BreakKeeps ==
  ASSUME PageInv, Break \/ Renew
  PROVE  PageInv' /\ UNCHANGED jobsPage
<1>1. UNCHANGED <<jobRow, pageVars, missed>> /\ outbox' \subseteq outbox /\ wire' = <<>>
  BY DEF Break, Renew, serverVars
<1>2. FetchTypes' /\ AnswerIsPast'
  <2>1. CASE UNCHANGED fetchVars
    BY <1>1, <2>1, PageTypesOf DEF FetchTypes, AnswerIsPast, FirstOnes, Past, fetchVars
  <2>2. CASE Over("extra")
    BY <1>1, <2>2, OverKeeps DEF Fetch
  <2> QED BY <2>1, <2>2 DEF Break, Renew
<1>3. PageIsPast'
  BY <1>1 DEF PageInv, PageIsPast, Past, pageVars
<1>4. /\ link' \in {"connecting", "subscribed", "open"}
      /\ pending' \in BOOLEAN /\ refreshTimer' \in BOOLEAN
  BY DEF Break, Renew
<1>5. faults < MaxFaults /\ faults' = faults + 1
  BY DEF Break, Renew
<1>6. faults' \in 0..MaxFaults
  BY <1>5, PageTypesOf, DashAssumption
<1> QED BY <1>1, <1>2, <1>3, <1>4, <1>6, PageTypesOf, QuietKeeps DEF pageVars

LEMMA ReceiveKeeps ==
  ASSUME PageInv, ReceiveJob
  PROVE  PageInv' /\ \A j \in Job : GoesOn(jobsPage[j], jobsPage'[j])
<1> DEFINE e == Head(wire)
<1>1. /\ wire # <<>> /\ wire' = Tail(wire)
      /\ UNCHANGED <<serverVars, pageAnswer, metaAnswer, link, pending, refreshTimer, faults>>
      /\ (ApplyCreated(e) \/ ApplyUpdated(e))
  BY DEF ReceiveJob
<1>2. e \in Message /\ Past(e.row, e.job)
  <2>1. wire \in Seq(Message) BY DEF PageInv, PageTypes
  <2>2. e \in Message BY <1>1, <2>1, HeadTailProperties
  <2>3. 1 \in DOMAIN wire /\ e = wire[1]
    BY <1>1, <2>1, EmptySeq, LenProperties
  <2> QED BY <2>2, <2>3 DEF PageInv, EventsArePast
<1>3. e.job \in Job /\ e.row \in Row /\ e.meta \in Stats \cup {NoMeta}
  BY <1>2 DEF Message
<1> HIDE DEF e
<1>4. jobsPage \in [Job -> Row] /\ dashMeta \in Stats
  BY PageTypesOf
<1>5. ASSUME NEW stats \in Stats, ApplyMeta(e, stats)
      PROVE  dashMeta' \in Stats /\ fetching' \in {fetching, [fetching EXCEPT !["extra"] = "timer"]}
  BY <1>3, <1>5 DEF ApplyMeta
<1>6. /\ dashMeta' \in Stats
      /\ fetching' \in {fetching, [fetching EXCEPT !["extra"] = "timer"]}
      /\ missed' \subseteq {"early", "dropped", "unknown", "failed"}
      /\ jobsPage' = jobsPage \/ ( /\ jobsPage' = [jobsPage EXCEPT ![e.job] = e.row]
                                  /\ jobsPage[e.job].version <= e.row.version)
  <2>1. CASE ApplyCreated(e)
    <3>1. [dashMeta EXCEPT !.total = @ + 1, !.active = @ + 1] \in Stats
      BY <1>4, OneMoreCounted
    <3>2. Absent.version <= e.row.version
      BY <1>3, RowVersion DEF Absent
    <3>3. PICK stats \in Stats : ApplyMeta(e, stats)
      BY <1>4, <2>1, <3>1 DEF ApplyCreated
    <3> QED BY <1>5, <2>1, <3>2, <3>3, PageTypesOf DEF ApplyCreated
  <2>2. CASE ApplyUpdated(e)
    <3>1. Shift(dashMeta, jobsPage[e.job].status, e.row.status) \in Stats
      BY <1>4, ShiftedCounts
    <3>2. ~(jobsPage[e.job].version > e.row.version) => jobsPage[e.job].version <= e.row.version
      BY <1>3, <1>4, RowVersion
    <3>3. CASE jobsPage[e.job].version > e.row.version
      <4>1. jobsPage[e.job] # Absent
        BY <1>3, <3>3, RowVersion DEF Absent
      <4> QED BY <1>4, <2>2, <3>3, <4>1, PageTypesOf DEF ApplyUpdated, pageVars
    <3>4. CASE ~(jobsPage[e.job].version > e.row.version) /\ jobsPage[e.job] = Absent
      BY <1>4, <1>5, <2>2, <3>4, PageTypesOf DEF ApplyUpdated
    <3>5. CASE ~(jobsPage[e.job].version > e.row.version) /\ jobsPage[e.job] # Absent
      BY <1>4, <1>5, <2>2, <3>1, <3>2, <3>5, PageTypesOf DEF ApplyUpdated
    <3> QED BY <3>3, <3>4, <3>5
  <2> QED BY <1>1, <2>1, <2>2
<1>7. \A j \in Job : GoesOn(jobsPage[j], jobsPage'[j])
  <2>1. e.row # Absent
    BY <1>2 DEF Message
  <2> QED BY <1>3, <1>4, <1>6, <2>1, RowVersion DEF GoesOn
<1>8. jobsPage' \in [Job -> Row] /\ PageIsPast'
  BY <1>1, <1>2, <1>3, <1>4, <1>6 DEF PageInv, PageIsPast, Past, serverVars
<1>9. FetchTypes' /\ AnswerIsPast'
  BY <1>1, <1>6, PageTypesOf DEF FetchTypes, AnswerIsPast, FirstOnes, Past, serverVars, Fetch, Query
<1> QED BY <1>1, <1>6, <1>7, <1>8, <1>9, PageTypesOf, QuietKeeps DEF serverVars

LEMMA StepPageInv ==
  ASSUME PageInv, [DashNext]_dashVars
  PROVE  PageInv' /\ \A j \in Job : GoesOn(jobsPage[j], jobsPage'[j])
<1>1. ASSUME UNCHANGED jobsPage
      PROVE  \A j \in Job : GoesOn(jobsPage[j], jobsPage'[j])
  <2>1. \A j \in Job : jobsPage[j].version \in Int
    BY PageTypesOf, RowVersion
  <2> QED BY <1>1, <2>1 DEF GoesOn
<1>2. CASE UNCHANGED dashVars
  <2>1. /\ UNCHANGED <<jobRow, outbox, wire, jobsPage, dashMeta, link, pending>>
        /\ UNCHANGED <<refreshTimer, missed, faults, fetchVars>>
    BY <1>2 DEF dashVars, serverVars, pageVars, connVars
  <2>2. FetchTypes' /\ AnswerIsPast' /\ PageIsPast'
    BY <2>1, PageTypesOf DEF FetchTypes, AnswerIsPast, PageIsPast, FirstOnes, Past, fetchVars
  <2> QED BY <1>1, <2>1, <2>2, PageTypesOf, QuietKeeps
<1>3. ASSUME NEW j \in Job, NewJob(j) \/ UpdateJob(j) \/ ResetJob(j)
      PROVE  PageInv' /\ UNCHANGED jobsPage
  BY <1>3, ServerKeeps
<1>4. CASE Deliver
  BY <1>1, <1>4, PublicationKeeps DEF Deliver
<1>5. ASSUME NEW q \in Fetch, AnswerMeta(q) \/ FetchFails(q)
      PROVE  PageInv' /\ UNCHANGED jobsPage
  BY <1>5, OverSteps
<1>6. CASE PollJobs \/ PollMeta \/ Refresh \/ FetchExtra \/ Connect \/ Open
  BY <1>1, <1>6, FetchKeeps
<1>7. CASE Break \/ Renew
  BY <1>1, <1>7, BreakKeeps
<1>8. CASE AnswerJobs \/ ReceiveJob
  BY <1>8, AnswerJobsKeeps, ReceiveKeeps
<1> QED BY <1>1, <1>2, <1>3, <1>4, <1>5, <1>6, <1>7, <1>8 DEF DashNext

LEMMA PageInvHolds == DashSpec => []PageInv
BY InitPageInv, StepPageInv, PTL DEF DashSpec

(* What the page shows of a job is a row the server had: no order of       *)
(* events, drops, polls and late answers makes up a row, or one that is    *)
(* ahead of the server's.                                                  *)
THEOREM PageIsPastCorrect == DashSpec => []PageIsPast
<1>1. PageInv => PageIsPast
  BY DEF PageInv
<1> QED BY <1>1, PageInvHolds, PTL

(* A job on the page never goes back to an earlier row, though an answer   *)
(* may be older than an event that came before it and an event older than  *)
(* an answer; nor does it go from the page.                                *)
THEOREM PageNeverBackCorrect == DashSpec => PageNeverBack
<1>1. PageInv /\ [DashNext]_dashVars => [\A j \in Job : GoesOn(jobsPage[j], jobsPage'[j])]_dashVars
  BY StepPageInv
<1> QED BY <1>1, PageInvHolds, PTL DEF DashSpec, PageNeverBack
-----------------------------------------------------------------------------
(* The two parts under one configuration: what is proved of each holds in  *)
(* the behaviours TLC looks at.                                            *)
THEOREM PartsCorrect == PartsFairSpec => Spec /\ DashSpec
<1>1. PartsInit => Init /\ DashInit
  BY DEF PartsInit
<1>2. [PartsNext]_partsVars => [Next]_vars /\ [DashNext]_dashVars
  BY DEF PartsNext, partsVars
<1> QED BY <1>1, <1>2, PTL DEF PartsFairSpec, Spec, DashSpec

(* The variables of the locks and of the page keep their types: versions   *)
(* stay in their bound, no counter goes below zero, the channel never holds*)
(* more than its size.                                                     *)
THEOREM PartsTypeCorrect == PartsFairSpec => []PartsTypeOK
<1>1. LockInv /\ PageInv => PartsTypeOK
  BY DEF LockInv, PageInv, PageTypes, PartsTypeOK
<1> QED BY <1>1, PartsCorrect, LockInvCorrect, PageInvHolds, PTL
=============================================================================
