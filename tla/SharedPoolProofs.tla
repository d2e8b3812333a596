-------------------------- MODULE SharedPoolProofs --------------------------
(***************************************************************************)
(* Machine-checked proofs about SharedPool, for any finite sets of teams   *)
(* and workspaces, any quotas, inventories and bounds.                     *)
(***************************************************************************)
EXTENDS SharedPool, QuotaSumsProofs, NaturalOrder

-----------------------------------------------------------------------------
(* The inductive invariant *)

\* What a reconcile has left to do are names of the right kind.
WorkNamed ==
    /\ p.pc \in {"deleteCohort", "dropTeam"} => p.obj \in Teams
    /\ p.pc \in {"deleteQueue", "dropWs"} => p.obj \in Workspaces
    /\ p.pc = "cohorts" => p.todo \subseteq Teams
    /\ p.pc \in {"read", "write", "hold"} => p.todo \subseteq Workspaces
    /\ p.pc = "write" => p.todo # {}

\* A Cohort that is not there has no quota.
CohortsPlain == \A t \in Teams : cohort[t].up \/ cohort[t] = NoCohort

\* Every queue is in a Cohort that exists.
QueuesAttached == \A w \in Workspaces : cq[w].up => cq[w].team \in Teams /\ cohort[cq[w].team].up

\* While the pass looks at its lists, no Cohort is outside them and every
\* workspace has a listed team ...
ListsCover ==
    p.pc \in {"check", "cohorts"} =>
       /\ \A t \in Teams : cohort[t].up => t \in Listed(p.teams)
       /\ \A w \in Selected(p.wss) : p.wss[w].team \in Listed(p.teams)

\* ... while it applies Cohorts, those behind it are as desired, and the desired
\* ones fit the inventory ...
CohortsApplied ==
    p.pc = "cohorts" =>
       /\ GuaranteesFit(p.teams, p.supply)
       /\ p.todo \subseteq Listed(p.teams)
       /\ \A t \in Listed(p.teams) \ p.todo : Established(t)

\* ... and when it comes to the queues, the tree in Kueue fits, and every queue
\* that is left to write has a Cohort to go to.
TreeReady ==
    p.pc \in {"read", "write"} =>
       /\ Tree <= p.supply
       /\ \A w \in p.todo : p.wss[w].team \in Teams /\ cohort[p.wss[w].team].up

\* finalizeTeam deletes a Cohort that no queue is in.
FinalizedUnused == p.pc = "deleteCohort" => \A w \in Workspaces : ~(cq[w].up /\ cq[w].team = p.obj)

PoolInv == /\ TypeOK /\ WorkNamed /\ CohortsPlain /\ QueuesAttached
           /\ ListsCover /\ CohortsApplied /\ TreeReady /\ FinalizedUnused

-----------------------------------------------------------------------------
(* Choices *)

\* The reconciler goes through names in order: there is a next one while any is left.
LEMMA NextNamed ==
    ASSUME NEW S, S \subseteq Nat, S # {}
    PROVE  Min(S) \in S
BY LeastExists DEF Min

\* The ceiling that a queue gets is a quota.
LEMMA CeilingNat ==
    ASSUME p \in Pass
    PROVE  Ceiling \in Nat
<1>1. p.pool \in Nat /\ p.resv \in Nat
  BY DEF Pass
<1>2. \E x \in {p.pool, p.resv} : \A y \in {p.pool, p.resv} : x >= y
  BY <1>1
<1> QED BY <1>1, <1>2 DEF Ceiling, Max

-----------------------------------------------------------------------------
(* Types *)

\* The initial and the reset values are well typed.
LEMMA ResetsType ==
    /\ NoTeamObject \in TeamObject /\ NoWsObject \in WsObject
    /\ NoCohort \in CohortObject /\ NoQueue \in QueueObject /\ Idle \in Pass
BY PoolConstants DEF NoTeamObject, TeamObject, ObjectState, NoWsObject, WsObject, NoCohort, CohortObject,
   NoQueue, QueueObject, Policy, Idle, Pass, NoTeams, NoWorkspaces

\* What holds the mutex: a pass, the hold that follows a failed one, a
\* finalizer or a cleanup, and their failures.
WorkerStep == \/ ListTeams \/ PassStep \/ HoldStep \/ CleanupStep \/ CallFails \/ HoldFails \/ Abort
              \/ \E t \in Teams : FinalizeTeam(t)
              \/ \E w \in Workspaces : CleanupWs(w)

\* Users, operators, nodes and Kueue, and the finalizers set outside the mutex.
OtherStep == \/ Environment
             \/ \E t \in Teams : AddTeamFinalizer(t)
             \/ \E w \in Workspaces : AddWsFinalizer(w)

\* The steps split into those that hold the mutex and those that do not.
LEMMA StepKinds == [Next]_vars => WorkerStep \/ OtherStep \/ UNCHANGED vars
BY DEF Next, WorkerStep, OtherStep

\* While its work list is not empty, the next name is in it and of its kind.
LEMMA NextOfKind ==
    ASSUME TypeOK, WorkNamed, p.todo # {}
    PROVE  /\ Min(p.todo) \in p.todo
           /\ p.pc = "cohorts" => Min(p.todo) \in Teams
           /\ p.pc \in {"read", "write", "hold"} => Min(p.todo) \in Workspaces
<1>1. p.todo \subseteq Teams \cup Workspaces
  BY DEF TypeOK, Pass
<1>2. Min(p.todo) \in p.todo
  BY <1>1, NextNamed, PoolConstants
<1> QED BY <1>2 DEF WorkNamed

\* The policy that a queue keeps is one that Kueue knows.
LEMMA KeptKnown ==
    ASSUME NEW q \in QueueObject
    PROVE  KeptPolicy(q) \in Policy
BY DEF KeptPolicy, QueueObject, Policy

\* The sum of the guarantees that a pass validates is a quota.
LEMMA AllocatedNat ==
    ASSUME NEW view \in [Teams -> TeamObject]
    PROVE  Allocated(view) \in Nat
<1> DEFINE S == Listed(view)
           f == [t \in S |-> view[t].quota]
<1>1. S \subseteq Teams
  BY DEF Listed
<1>2. IsFiniteSet(S)
  BY <1>1, PoolConstants, FS_Subset
<1>3. f \in [S -> Nat]
  <2>1. \A t \in Teams : view[t].quota \in Nat
    <3>1. 0..MaxQuota \subseteq Nat
      BY PoolConstants
    <3> QED BY <3>1 DEF TeamObject
  <2> QED BY <1>1, <2>1
<1>4. SumOver(f) \in Nat
  <2> HIDE DEF S, f
  <2> QED BY <1>2, <1>3, SumNat
<1> QED BY <1>4, PoolConstants DEF Allocated

\* The mutex holder stays well formed, and its work list names what it works on.
LEMMA PassShape ==
    ASSUME TypeOK, WorkNamed, WorkerStep
    PROVE  p' \in Pass /\ WorkNamed'
<1> USE DEF WorkNamed
<1>0. /\ p \in Pass /\ team \in [Teams -> TeamObject] /\ ws \in [Workspaces -> WsObject]
      /\ cq \in [Workspaces -> QueueObject] /\ supply \in Nat
  BY PoolConstants DEF TypeOK
<1>1. (p' = Idle) => p' \in Pass /\ WorkNamed'
  BY ResetsType DEF Idle
<1>2. (p' = [Idle EXCEPT !.pc = "holdList"]) => p' \in Pass /\ WorkNamed'
  BY ResetsType DEF Idle, Pass
<1>3. CASE ListTeams
  <2>1. (p' = [Idle EXCEPT !.pc = "workspaces", !.teams = team, !.supply = supply]) => p' \in Pass /\ WorkNamed'
    BY <1>0, ResetsType DEF Idle, Pass
  <2> QED BY <1>2, <1>3, <2>1 DEF ListTeams
<1>4. CASE ListWorkspaces
  <2>1. (p' = [p EXCEPT !.pc = "check", !.wss = ws]) => p' \in Pass /\ WorkNamed'
    BY <1>0 DEF Pass
  <2> QED BY <1>2, <1>4, <2>1 DEF ListWorkspaces
<1>5. CASE CheckPool
  <2> DEFINE a == Allocated(p.teams)
             b == AllowCreate(p.wss)
  <2>1. a \in Nat /\ b \in BOOLEAN /\ Listed(p.teams) \subseteq Teams
    BY <1>0, AllocatedNat DEF Pass, AllowCreate, Listed
  <2> HIDE DEF a, b
  <2>2. (p' = [p EXCEPT !.pc = "cohorts", !.todo = Listed(p.teams), !.pool = a, !.create = b])
        => p' \in Pass /\ WorkNamed'
    BY <1>0, <2>1 DEF Pass
  <2> QED BY <1>2, <1>5, <2>2 DEF CheckPool, a, b
<1>6. ASSUME NEW m, p' = [p EXCEPT !.todo = @ \ {m}], p.pc # "write"
      PROVE  p' \in Pass /\ WorkNamed'
  BY <1>0, <1>6 DEF Pass
<1>7. CASE ApplyCohort
  BY <1>2, <1>6, <1>7 DEF ApplyCohort
<1>8. CASE CohortsDone
  <2>1. NoTeams \in [Teams -> TeamObject] /\ Selected(p.wss) \subseteq Workspaces
    BY ResetsType DEF NoTeams, Selected
  <2> QED BY <1>0, <1>8, <2>1 DEF CohortsDone, Pass
<1>9. CASE RecoverHold
  BY <1>6, <1>9 DEF RecoverHold
<1>10. CASE ReadQueue
  <2> DEFINE m == Min(p.todo)
             k == KeptPolicy(cq[m])
  <2>1. p.todo # {} /\ m \in Workspaces
    BY <1>10, NextOfKind DEF ReadQueue
  <2>2. k \in Policy /\ cq[m].resv \in Nat
    BY <1>0, <2>1, KeptKnown DEF QueueObject
  <2> HIDE DEF m, k
  <2>3. (p' = [p EXCEPT !.pc = "write", !.keep = k, !.resv = cq[m].resv]) /\ p.pc = "read" => p' \in Pass /\ WorkNamed'
    BY <1>0, <2>1, <2>2 DEF Pass
  <2> QED BY <1>2, <1>10, <2>3 DEF ReadQueue, m, k
<1>11. CASE WriteQueue
  <2>1. ASSUME NEW m, p' = [p EXCEPT !.pc = "read", !.todo = @ \ {m}, !.keep = "None", !.resv = 0], p.pc = "write"
        PROVE  p' \in Pass /\ WorkNamed'
    BY <1>0, <2>1 DEF Pass, Policy
  <2> QED BY <1>2, <1>11, <2>1 DEF WriteQueue
<1>12. CASE HoldList
  <2>1. Selected(ws) \subseteq Workspaces
    BY DEF Selected
  <2> QED BY <1>12, <2>1, ResetsType DEF HoldList, Idle, Pass
<1>13. CASE HoldNext \/ HoldFails
  BY <1>6, <1>13 DEF HoldNext, HoldFails
<1>14. ASSUME NEW t \in Teams, FinalizeTeam(t) PROVE p' \in Pass /\ WorkNamed'
  BY <1>14, ResetsType DEF FinalizeTeam, Idle, Pass
<1>15. ASSUME NEW w \in Workspaces, CleanupWs(w) PROVE p' \in Pass /\ WorkNamed'
  BY <1>15, ResetsType DEF CleanupWs, Idle, Pass
<1>16. CASE DeleteCohort
  BY <1>0, <1>16 DEF DeleteCohort, Pass
<1>17. CASE DeleteQueue
  <2>1. (p' = [p EXCEPT !.pc = "dropWs"]) /\ p.pc = "deleteQueue" => p' \in Pass /\ WorkNamed'
    BY <1>0 DEF Pass
  <2> QED BY <1>1, <1>17, <2>1 DEF DeleteQueue
<1>18. CASE PassDone \/ HoldDone \/ DropTeamFinalizer \/ DropWsFinalizer \/ CallFails \/ Abort
  BY <1>1, <1>2, <1>18 DEF PassDone, HoldDone, DropTeamFinalizer, DropWsFinalizer, CallFails, Abort
<1> QED BY <1>3, <1>4, <1>5, <1>7, <1>8, <1>9, <1>10, <1>11, <1>12, <1>13, <1>14, <1>15, <1>16, <1>17, <1>18
        DEF WorkerStep, PassStep, HoldStep, CleanupStep

\* Every queue that is written is well formed.
LEMMA QueueType ==
    ASSUME TypeOK, WorkNamed, [Next]_vars
    PROVE  cq' \in [Workspaces -> QueueObject]
<1>0. /\ p \in Pass /\ cq \in [Workspaces -> QueueObject]
  BY DEF TypeOK
<1>1. ASSUME NEW w \in Workspaces, NEW q \in QueueObject, cq' = [cq EXCEPT ![w] = q]
      PROVE  cq' \in [Workspaces -> QueueObject]
  BY <1>0, <1>1
<1>2. CASE RecoverHold
  <2> DEFINE w == Min(p.todo)
             k == KeptPolicy(cq[w])
  <2>1. w \in Workspaces
    BY <1>2, NextOfKind DEF RecoverHold
  <2>2. k \in Policy
    BY <1>0, <2>1, KeptKnown
  <2> HIDE DEF w, k
  <2>3. [cq[w] EXCEPT !.policy = k, !.ours = FALSE] \in QueueObject
    BY <1>0, <2>1, <2>2 DEF QueueObject
  <2>4. cq' = [cq EXCEPT ![w] = [cq[w] EXCEPT !.policy = k, !.ours = FALSE]]
    BY <1>0, <1>2, <2>1 DEF RecoverHold, w, k
  <2> QED BY <1>1, <2>1, <2>3, <2>4
<1>3. CASE WriteQueue
  <2> DEFINE w == Min(p.todo)
             c == Ceiling
  <2>1. w \in Workspaces /\ w \in p.todo
    BY <1>3, NextOfKind DEF WriteQueue, WorkNamed
  <2>2. c \in Nat
    BY <1>0, CeilingNat
  <2>3. p.wss[w].team \in Teams \cup {NoTeam} /\ p.keep \in Policy
    BY <1>0, <2>1 DEF Pass, WsObject
  <2>4. cq' = cq \/ cq' = [cq EXCEPT ![w] = [@ EXCEPT !.up = TRUE, !.team = p.wss[w].team, !.ceiling = c,
                                                  !.policy = p.keep, !.ours = FALSE]]
    BY <1>3 DEF WriteQueue
  <2> HIDE DEF w, c
  <2>5. [cq[w] EXCEPT !.up = TRUE, !.team = p.wss[w].team, !.ceiling = c, !.policy = p.keep, !.ours = FALSE]
            \in QueueObject
    BY <1>0, <2>1, <2>2, <2>3 DEF QueueObject
  <2> QED BY <1>0, <1>1, <2>1, <2>4, <2>5
<1>4. CASE HoldNext
  <2> DEFINE w == Min(p.todo)
  <2>1. w \in Workspaces
    BY <1>4, NextOfKind DEF HoldNext
  <2>2. cq' = [cq EXCEPT ![w] = HeldQueue(cq[w])]
    BY <1>4 DEF HoldNext
  <2> HIDE DEF w
  <2>3. HeldQueue(cq[w]) \in QueueObject
    BY <1>0, <2>1 DEF HeldQueue, QueueObject, Policy
  <2> QED BY <1>1, <2>1, <2>2, <2>3
<1>5. CASE DeleteQueue
  <2>1. p.obj \in Workspaces
    BY <1>5 DEF DeleteQueue, WorkNamed
  <2>2. [cq[p.obj] EXCEPT !.term = TRUE] \in QueueObject
    BY <1>0, <2>1 DEF QueueObject
  <2>3. cq' = [cq EXCEPT ![p.obj] = NoQueue] \/ cq' = [cq EXCEPT ![p.obj] = [cq[p.obj] EXCEPT !.term = TRUE]]
    BY <1>5 DEF DeleteQueue
  <2> QED BY <1>1, <2>1, <2>2, <2>3, ResetsType
<1>6. ASSUME NEW w \in Workspaces, NEW policy \in Policy, SetPolicy(w, policy)
      PROVE  cq' \in [Workspaces -> QueueObject]
  <2>1. [cq[w] EXCEPT !.policy = policy, !.touched = TRUE] \in QueueObject
    BY <1>0 DEF QueueObject
  <2>2. cq' = [cq EXCEPT ![w] = [cq[w] EXCEPT !.policy = policy, !.touched = TRUE]]
    BY <1>0, <1>6 DEF SetPolicy
  <2> QED BY <1>1, <2>1, <2>2
<1>7. ASSUME NEW w \in Workspaces, Reserve(w)
      PROVE  cq' \in [Workspaces -> QueueObject]
  <2>1. [cq[w] EXCEPT !.resv = @ + 1] \in QueueObject
    BY <1>0 DEF QueueObject
  <2>2. cq' = [cq EXCEPT ![w] = [cq[w] EXCEPT !.resv = @ + 1]]
    BY <1>0, <1>7 DEF Reserve
  <2> QED BY <1>1, <2>1, <2>2
<1>8. ASSUME NEW w \in Workspaces, Release(w)
      PROVE  cq' \in [Workspaces -> QueueObject]
  <2>1. [cq[w] EXCEPT !.resv = @ - 1] \in QueueObject
    BY <1>0, <1>8 DEF Release, QueueObject
  <2>2. cq' = [cq EXCEPT ![w] = NoQueue] \/ cq' = [cq EXCEPT ![w] = [cq[w] EXCEPT !.resv = @ - 1]]
    BY <1>0, <1>8 DEF Release
  <2> QED BY <1>1, <2>1, <2>2, ResetsType
<1>9. \/ cq' = cq \/ RecoverHold \/ WriteQueue \/ HoldNext \/ DeleteQueue
      \/ \E w \in Workspaces : Reserve(w) \/ Release(w) \/ \E policy \in Policy : SetPolicy(w, policy)
  BY DEF Next, vars, ListTeams, PassStep, ListWorkspaces, CheckPool, ApplyCohort, CohortsDone, ReadQueue, PassDone,
     HoldStep, HoldList, HoldDone, FinalizeTeam, AddTeamFinalizer, CleanupWs, AddWsFinalizer, CleanupStep,
     DeleteCohort, DropTeamFinalizer, DropWsFinalizer, CallFails, HoldFails, Abort, Environment,
     EditTeam, CreateTeam, DeleteTeam, CreateWs, MoveWs, DeleteWs, ChangeSupply, ChangeSound
<1> QED BY <1>0, <1>2, <1>3, <1>4, <1>5, <1>6, <1>7, <1>8, <1>9

\* applySharedTeamPool creates Cohorts of teams that it has listed and have none,
\* finalizeTeam deletes that of its team; nothing else writes one.
LEMMA CohortEffect ==
    ASSUME TypeOK, WorkNamed, [Next]_vars
    PROVE  \/ cohort' = cohort
           \/ /\ ApplyCohort /\ p.todo # {} /\ ~cohort[Min(p.todo)].up
              /\ cohort' = [cohort EXCEPT ![Min(p.todo)] = [up |-> TRUE, nominal |-> p.teams[Min(p.todo)].quota,
                                                            limit |-> p.teams[Min(p.todo)].limit]]
              /\ p' = [p EXCEPT !.todo = @ \ {Min(p.todo)}]
           \/ DeleteCohort /\ cohort' = [cohort EXCEPT ![p.obj] = NoCohort]
<1>1. CASE ApplyCohort
  BY <1>1 DEF ApplyCohort
<1>2. CASE DeleteCohort
  BY <1>2 DEF DeleteCohort
<1>3. ApplyCohort \/ DeleteCohort \/ cohort' = cohort
  BY DEF Next, vars, ListTeams, PassStep, ListWorkspaces, CheckPool, CohortsDone, ReadQueue, PassDone,
     RecoverHold, WriteQueue, HoldNext, DeleteQueue, SetPolicy, Reserve, Release,
     HoldStep, HoldList, HoldDone, FinalizeTeam, AddTeamFinalizer, CleanupWs, AddWsFinalizer, CleanupStep,
     DropTeamFinalizer, DropWsFinalizer, CallFails, HoldFails, Abort, Environment,
     EditTeam, CreateTeam, DeleteTeam, CreateWs, MoveWs, DeleteWs, ChangeSupply, ChangeSound
<1> QED BY <1>1, <1>2, <1>3

\* The Cohorts stay well formed.
LEMMA CohortType ==
    ASSUME TypeOK, WorkNamed, [Next]_vars
    PROVE  cohort' \in [Teams -> CohortObject]
<1>0. p \in Pass /\ cohort \in [Teams -> CohortObject]
  BY DEF TypeOK
<1>1. CASE ApplyCohort /\ cohort' # cohort
  <2> DEFINE t == Min(p.todo)
             c == [up |-> TRUE, nominal |-> p.teams[t].quota, limit |-> p.teams[t].limit]
  <2>1. t \in Teams
    BY <1>1, NextOfKind DEF ApplyCohort
  <2>2. cohort' = [cohort EXCEPT ![t] = c]
    BY <1>1 DEF ApplyCohort
  <2>3. p.teams[t] \in TeamObject
    BY <1>0, <2>1 DEF Pass
  <2>4. c \in CohortObject
    BY <2>3 DEF TeamObject, CohortObject
  <2> HIDE DEF t, c
  <2> QED BY <1>0, <2>1, <2>2, <2>4
<1> QED BY <1>0, <1>1, CohortEffect, ResetsType

\* The users' objects stay well formed.
LEMMA ObjectsType ==
    ASSUME TypeOK, WorkNamed, [Next]_vars
    PROVE  team' \in [Teams -> TeamObject] /\ ws' \in [Workspaces -> WsObject]
<1>0. team \in [Teams -> TeamObject] /\ ws \in [Workspaces -> WsObject]
  BY DEF TypeOK
<1>1. ASSUME NEW t \in Teams, NEW o \in TeamObject, team' = [team EXCEPT ![t] = o]
      PROVE  team' \in [Teams -> TeamObject]
  BY <1>0, <1>1
<1>2. ASSUME NEW w \in Workspaces, NEW o \in WsObject, ws' = [ws EXCEPT ![w] = o]
      PROVE  ws' \in [Workspaces -> WsObject]
  BY <1>0, <1>2
<1>3. team' \in [Teams -> TeamObject]
  <2>1. CASE DropTeamFinalizer
    BY <1>1, <2>1, ResetsType DEF DropTeamFinalizer, WorkNamed
  <2>2. ASSUME NEW t \in Teams, AddTeamFinalizer(t) PROVE team' \in [Teams -> TeamObject]
    <3>1. [team[t] EXCEPT !.st = "live"] \in TeamObject
      BY <1>0 DEF TeamObject, ObjectState
    <3> QED BY <1>1, <2>2, <3>1 DEF AddTeamFinalizer
  <2>3. ASSUME NEW t \in Teams, DeleteTeam(t) PROVE team' \in [Teams -> TeamObject]
    <3>1. [team[t] EXCEPT !.st = "deleting"] \in TeamObject
      BY <1>0 DEF TeamObject, ObjectState
    <3>2. team' = [team EXCEPT ![t] = NoTeamObject] \/ team' = [team EXCEPT ![t] = [team[t] EXCEPT !.st = "deleting"]]
      BY <2>3 DEF DeleteTeam
    <3> QED BY <1>1, <3>1, <3>2, ResetsType
  <2>4. ASSUME NEW t \in Teams, NEW q \in 0..MaxQuota, EditTeam(t, q) PROVE team' \in [Teams -> TeamObject]
    <3>1. [team[t] EXCEPT !.quota = q] \in TeamObject
      BY <1>0 DEF TeamObject
    <3> QED BY <1>1, <2>4, <3>1 DEF EditTeam
  <2>5. ASSUME NEW t \in Teams, NEW q \in 0..MaxQuota, NEW l \in Limits, CreateTeam(t, q, l)
        PROVE  team' \in [Teams -> TeamObject]
    <3>1. [st |-> "new", quota |-> q, limit |-> l] \in TeamObject
      BY DEF TeamObject, ObjectState
    <3> QED BY <1>1, <2>5, <3>1 DEF CreateTeam
  <2>6. \/ team' = team \/ DropTeamFinalizer
        \/ \E t \in Teams : AddTeamFinalizer(t) \/ DeleteTeam(t)
        \/ \E t \in Teams, q \in 0..MaxQuota : EditTeam(t, q) \/ \E l \in Limits : CreateTeam(t, q, l)
    BY DEF Next, vars, ListTeams, PassStep, ListWorkspaces, CheckPool, ApplyCohort, CohortsDone, ReadQueue, PassDone,
       RecoverHold, WriteQueue, HoldNext, DeleteQueue, SetPolicy, Reserve, Release, DeleteCohort,
       HoldStep, HoldList, HoldDone, FinalizeTeam, CleanupWs, AddWsFinalizer, CleanupStep,
       DropWsFinalizer, CallFails, HoldFails, Abort, Environment,
       CreateWs, MoveWs, DeleteWs, ChangeSupply, ChangeSound
  <2> QED BY <1>0, <2>1, <2>2, <2>3, <2>4, <2>5, <2>6
<1>4. ws' \in [Workspaces -> WsObject]
  <2>1. CASE DropWsFinalizer
    BY <1>2, <2>1, ResetsType DEF DropWsFinalizer, WorkNamed
  <2>2. ASSUME NEW w \in Workspaces, AddWsFinalizer(w) PROVE ws' \in [Workspaces -> WsObject]
    <3>1. [ws[w] EXCEPT !.st = "live"] \in WsObject
      BY <1>0 DEF WsObject, ObjectState
    <3> QED BY <1>2, <2>2, <3>1 DEF AddWsFinalizer
  <2>3. ASSUME NEW w \in Workspaces, DeleteWs(w) PROVE ws' \in [Workspaces -> WsObject]
    <3>1. [ws[w] EXCEPT !.st = "deleting"] \in WsObject
      BY <1>0 DEF WsObject, ObjectState
    <3>2. ws' = [ws EXCEPT ![w] = NoWsObject] \/ ws' = [ws EXCEPT ![w] = [ws[w] EXCEPT !.st = "deleting"]]
      BY <2>3 DEF DeleteWs
    <3> QED BY <1>2, <3>1, <3>2, ResetsType
  <2>4. ASSUME NEW w \in Workspaces, NEW t \in Teams, CreateWs(w, t) \/ MoveWs(w, t)
        PROVE  ws' \in [Workspaces -> WsObject]
    <3>1. [ws[w] EXCEPT !.team = t] \in WsObject /\ [st |-> "new", team |-> t] \in WsObject
      BY <1>0 DEF WsObject, ObjectState
    <3>2. ws' = [ws EXCEPT ![w] = [ws[w] EXCEPT !.team = t]] \/ ws' = [ws EXCEPT ![w] = [st |-> "new", team |-> t]]
      BY <2>4 DEF CreateWs, MoveWs
    <3> QED BY <1>2, <3>1, <3>2
  <2>5. \/ ws' = ws \/ DropWsFinalizer
        \/ \E w \in Workspaces : AddWsFinalizer(w) \/ DeleteWs(w)
        \/ \E w \in Workspaces, t \in Teams : CreateWs(w, t) \/ MoveWs(w, t)
    BY DEF Next, vars, ListTeams, PassStep, ListWorkspaces, CheckPool, ApplyCohort, CohortsDone, ReadQueue, PassDone,
       RecoverHold, WriteQueue, HoldNext, DeleteQueue, SetPolicy, Reserve, Release, DeleteCohort,
       HoldStep, HoldList, HoldDone, FinalizeTeam, AddTeamFinalizer, CleanupWs, CleanupStep,
       DropTeamFinalizer, CallFails, HoldFails, Abort, Environment,
       EditTeam, CreateTeam, DeleteTeam, ChangeSupply, ChangeSound
  <2> QED BY <1>0, <2>1, <2>2, <2>3, <2>4, <2>5
<1> QED BY <1>3, <1>4

\* Nobody but the holder of the mutex touches its notes or a Cohort.
LEMMA OtherFrame ==
    ASSUME OtherStep \/ UNCHANGED vars
    PROVE  UNCHANGED <<p, cohort>>
BY DEF OtherStep, vars, Environment, EditTeam, CreateTeam, DeleteTeam, CreateWs, MoveWs, DeleteWs, Reserve, Release,
   SetPolicy, ChangeSupply, ChangeSound, AddTeamFinalizer, AddWsFinalizer

\* All the variables keep their types.
LEMMA TypeStep ==
    ASSUME TypeOK, WorkNamed, [Next]_vars
    PROVE  TypeOK' /\ WorkNamed'
<1>1. p' \in Pass /\ WorkNamed'
  <2>1. CASE WorkerStep
    BY <2>1, PassShape
  <2>2. CASE OtherStep \/ UNCHANGED vars
    BY <2>2, OtherFrame DEF WorkNamed, TypeOK
  <2> QED BY <2>1, <2>2, StepKinds
<1>2. edits' \in 0..EditBudget /\ faults' \in 0..FaultBudget
  <2>1. /\ edits' = edits \/ Edit
        /\ faults' = faults \/ (faults < FaultBudget /\ faults' = faults + 1)
    BY DEF Next, vars, ListTeams, PassStep, ListWorkspaces, CheckPool, ApplyCohort, CohortsDone, ReadQueue, PassDone,
       RecoverHold, WriteQueue, HoldNext, DeleteQueue, SetPolicy, Reserve, Release, DeleteCohort,
       HoldStep, HoldList, HoldDone, FinalizeTeam, AddTeamFinalizer, CleanupWs, AddWsFinalizer, CleanupStep,
       DropTeamFinalizer, DropWsFinalizer, CallFails, HoldFails, Abort, Environment,
       EditTeam, CreateTeam, DeleteTeam, CreateWs, MoveWs, DeleteWs, ChangeSupply, ChangeSound
  <2> QED BY <2>1, PoolConstants DEF TypeOK, Edit
<1>3. supply' \in Supplies /\ sound' \in BOOLEAN
  <2>1. /\ supply' = supply \/ supply' \in Supplies
        /\ sound' = sound \/ sound' = ~sound
    BY DEF Next, vars, ListTeams, PassStep, ListWorkspaces, CheckPool, ApplyCohort, CohortsDone, ReadQueue, PassDone,
       RecoverHold, WriteQueue, HoldNext, DeleteQueue, SetPolicy, Reserve, Release, DeleteCohort,
       HoldStep, HoldList, HoldDone, FinalizeTeam, AddTeamFinalizer, CleanupWs, AddWsFinalizer, CleanupStep,
       DropTeamFinalizer, DropWsFinalizer, CallFails, HoldFails, Abort, Environment,
       EditTeam, CreateTeam, DeleteTeam, CreateWs, MoveWs, DeleteWs, ChangeSupply, ChangeSound
  <2> QED BY <2>1 DEF TypeOK
<1> QED BY <1>1, <1>2, <1>3, QueueType, CohortType, ObjectsType DEF TypeOK

-----------------------------------------------------------------------------
(* Queues and Cohorts *)

\* A queue is in a Cohort because it already was, or because a pass has just
\* written it for the workspace that is next.
LEMMA QueueEffect ==
    ASSUME TypeOK, WorkNamed, [Next]_vars, NEW w \in Workspaces, cq'[w].up
    PROVE  \/ cq[w].up /\ cq'[w].team = cq[w].team
           \/ WriteQueue /\ w \in p.todo /\ cq'[w].team = p.wss[w].team
<1>0. cq \in [Workspaces -> QueueObject]
  BY DEF TypeOK
<1>1. CASE RecoverHold
  <2> DEFINE m == Min(p.todo)
             k == KeptPolicy(cq[m])
  <2>1. cq' = [cq EXCEPT ![m].policy = k, ![m].ours = FALSE]
    BY <1>1 DEF RecoverHold
  <2> HIDE DEF m, k
  <2> QED BY <1>0, <2>1 DEF QueueObject
<1>2. CASE WriteQueue
  <2> DEFINE m == Min(p.todo)
             c == Ceiling
  <2>1. m \in p.todo
    BY <1>2, NextOfKind DEF WriteQueue, WorkNamed
  <2>2. cq' = cq \/ cq' = [cq EXCEPT ![m] = [@ EXCEPT !.up = TRUE, !.team = p.wss[m].team, !.ceiling = c,
                                                  !.policy = p.keep, !.ours = FALSE]]
    BY <1>2 DEF WriteQueue
  <2> HIDE DEF m, c
  <2>3. CASE w = m /\ cq' # cq
    BY <1>0, <1>2, <2>1, <2>2, <2>3 DEF QueueObject
  <2>4. CASE w # m \/ cq' = cq
    BY <1>0, <2>2, <2>4
  <2> QED BY <2>3, <2>4
<1>3. CASE HoldNext
  <2> DEFINE m == Min(p.todo)
  <2>1. cq' = [cq EXCEPT ![m] = HeldQueue(cq[m])]
    BY <1>3 DEF HoldNext
  <2> HIDE DEF m
  <2> QED BY <1>0, <2>1 DEF HeldQueue, QueueObject
<1>4. CASE DeleteQueue
  BY <1>0, <1>4 DEF DeleteQueue, NoQueue, QueueObject
<1>5. ASSUME NEW x \in Workspaces, NEW policy \in Policy, SetPolicy(x, policy)
      PROVE  cq[w].up /\ cq'[w].team = cq[w].team
  BY <1>0, <1>5 DEF SetPolicy, QueueObject
<1>6. ASSUME NEW x \in Workspaces, Reserve(x)
      PROVE  cq[w].up /\ cq'[w].team = cq[w].team
  <2>1. cq' = [cq EXCEPT ![x].resv = @ + 1]
    BY <1>6 DEF Reserve
  <2> QED BY <1>0, <2>1 DEF QueueObject
<1>7. ASSUME NEW x \in Workspaces, Release(x)
      PROVE  cq[w].up /\ cq'[w].team = cq[w].team
  BY <1>0, <1>7 DEF Release, NoQueue, QueueObject
<1>8. \/ cq' = cq \/ RecoverHold \/ WriteQueue \/ HoldNext \/ DeleteQueue
      \/ \E x \in Workspaces : Reserve(x) \/ Release(x) \/ \E policy \in Policy : SetPolicy(x, policy)
  BY DEF Next, vars, ListTeams, PassStep, ListWorkspaces, CheckPool, ApplyCohort, CohortsDone, ReadQueue, PassDone,
     HoldStep, HoldList, HoldDone, FinalizeTeam, AddTeamFinalizer, CleanupWs, AddWsFinalizer, CleanupStep,
     DeleteCohort, DropTeamFinalizer, DropWsFinalizer, CallFails, HoldFails, Abort, Environment,
     EditTeam, CreateTeam, DeleteTeam, CreateWs, MoveWs, DeleteWs, ChangeSupply, ChangeSound
<1> QED BY <1>1, <1>2, <1>3, <1>4, <1>5, <1>6, <1>7, <1>8

\* A Cohort goes only with finalizeTeam, and then it leaves nothing behind.
LEMMA CohortsStep ==
    ASSUME PoolInv, [Next]_vars
    PROVE  /\ CohortsPlain'
           /\ \A t \in Teams : cohort[t].up => cohort'[t].up \/ (DeleteCohort /\ t = p.obj)
<1>0. TypeOK /\ WorkNamed /\ CohortsPlain /\ cohort \in [Teams -> CohortObject]
  BY DEF PoolInv, TypeOK
<1>1. CASE cohort' = cohort
  BY <1>0, <1>1 DEF CohortsPlain
<1>2. CASE ApplyCohort
  <2> DEFINE m == Min(p.todo)
             c == [up |-> TRUE, nominal |-> p.teams[m].quota, limit |-> p.teams[m].limit]
  <2>1. cohort' = cohort \/ cohort' = [cohort EXCEPT ![m] = c]
    BY <1>2 DEF ApplyCohort
  <2>2. c.up
    OBVIOUS
  <2> HIDE DEF m, c
  <2> QED BY <1>0, <1>1, <2>1, <2>2 DEF CohortsPlain
<1>3. CASE DeleteCohort
  BY <1>0, <1>3 DEF DeleteCohort, CohortsPlain
<1> QED BY <1>0, <1>1, <1>2, <1>3, CohortEffect

\* Only finalizeTeam leads to the deletion of a Cohort.
LEMMA FinalizerStarts ==
    ASSUME TypeOK, WorkerStep, p'.pc = "deleteCohort"
    PROVE  \E t \in Teams : FinalizeTeam(t)
<1>0. p \in Pass
  BY DEF TypeOK
<1>1. (p' # Idle) /\ (p' # [Idle EXCEPT !.pc = "holdList"])
  BY DEF Idle
<1>2. CASE ListTeams
  <2>1. p' = [Idle EXCEPT !.pc = "workspaces", !.teams = team, !.supply = supply]
    BY <1>1, <1>2 DEF ListTeams
  <2> QED BY <2>1 DEF Idle
<1>3. CASE ListWorkspaces
  <2>1. p' = [p EXCEPT !.pc = "check", !.wss = ws]
    BY <1>1, <1>3 DEF ListWorkspaces
  <2> QED BY <1>0, <2>1 DEF Pass
<1>4. CASE CheckPool
  <2> DEFINE a == Allocated(p.teams)
             b == AllowCreate(p.wss)
             l == Listed(p.teams)
  <2>1. p' = [p EXCEPT !.pc = "cohorts", !.todo = l, !.pool = a, !.create = b]
    BY <1>1, <1>4 DEF CheckPool
  <2> HIDE DEF a, b, l
  <2> QED BY <1>0, <2>1 DEF Pass
<1>5. ASSUME NEW m, p' = [p EXCEPT !.todo = @ \ {m}], p.pc # "deleteCohort" PROVE FALSE
  BY <1>0, <1>5 DEF Pass
<1>6. CASE ApplyCohort \/ RecoverHold \/ HoldNext \/ HoldFails
  BY <1>1, <1>5, <1>6 DEF ApplyCohort, RecoverHold, HoldNext, HoldFails
<1>7. CASE CohortsDone
  BY <1>0, <1>7 DEF CohortsDone, Pass
<1>8. CASE ReadQueue
  <2> DEFINE k == KeptPolicy(cq[Min(p.todo)])
             r == cq[Min(p.todo)].resv
  <2>1. p' = [p EXCEPT !.pc = "write", !.keep = k, !.resv = r]
    BY <1>1, <1>8 DEF ReadQueue
  <2> HIDE DEF k, r
  <2> QED BY <1>0, <2>1 DEF Pass
<1>9. CASE WriteQueue
  <2>1. \E m : p' = [p EXCEPT !.pc = "read", !.todo = @ \ {m}, !.keep = "None", !.resv = 0]
    BY <1>1, <1>9 DEF WriteQueue
  <2> QED BY <1>0, <2>1 DEF Pass
<1>10. CASE HoldList
  BY <1>10 DEF HoldList, Idle
<1>11. ASSUME NEW w \in Workspaces, CleanupWs(w) PROVE FALSE
  BY <1>11 DEF CleanupWs, Idle
<1>12. CASE CleanupStep
  BY <1>0, <1>1, <1>12 DEF CleanupStep, DeleteCohort, DropTeamFinalizer, DeleteQueue, DropWsFinalizer, Pass
<1>13. CASE PassDone \/ HoldDone \/ CallFails \/ Abort
  BY <1>1, <1>13 DEF PassDone, HoldDone, CallFails, Abort
<1> QED BY <1>2, <1>3, <1>4, <1>6, <1>7, <1>8, <1>9, <1>10, <1>11, <1>12, <1>13
        DEF WorkerStep, PassStep, HoldStep

\* finalizeTeam checks the queues before it deletes; no pass runs in between.
LEMMA FinalizedStep ==
    ASSUME PoolInv, [Next]_vars
    PROVE  FinalizedUnused'
<1>0. TypeOK /\ WorkNamed /\ FinalizedUnused /\ p \in Pass
  BY DEF PoolInv, TypeOK
<1>1. SUFFICES ASSUME p'.pc = "deleteCohort", NEW w \in Workspaces, cq'[w].up PROVE cq'[w].team # p'.obj
  BY DEF FinalizedUnused
<1>2. CASE OtherStep \/ UNCHANGED vars
  <2>1. p' = p
    BY <1>2, OtherFrame
  <2>2. ~WriteQueue
    BY <1>1, <2>1 DEF WriteQueue
  <2>3. cq[w].up /\ cq'[w].team = cq[w].team
    BY <1>0, <1>1, <2>2, QueueEffect
  <2> QED BY <1>0, <1>1, <2>1, <2>3 DEF FinalizedUnused
<1>3. CASE WorkerStep
  <2>1. PICK t \in Teams : FinalizeTeam(t)
    BY <1>0, <1>1, <1>3, FinalizerStarts
  <2> QED BY <1>1, <2>1 DEF FinalizeTeam, Unused, Idle
<1> QED BY <1>2, <1>3, StepKinds

\* Every queue stays in a Cohort that exists.
LEMMA AttachedStep ==
    ASSUME PoolInv, [Next]_vars
    PROVE  QueuesAttached'
<1>0. TypeOK /\ WorkNamed /\ QueuesAttached /\ TreeReady /\ FinalizedUnused
  BY DEF PoolInv
<1>1. SUFFICES ASSUME NEW w \in Workspaces, cq'[w].up
               PROVE  cq'[w].team \in Teams /\ cohort'[cq'[w].team].up
  BY DEF QueuesAttached
<1>2. CASE cq[w].up /\ cq'[w].team = cq[w].team
  <2>1. cq[w].team \in Teams /\ cohort[cq[w].team].up
    BY <1>0, <1>2 DEF QueuesAttached
  <2>2. ~(DeleteCohort /\ cq[w].team = p.obj)
    BY <1>0, <1>2 DEF DeleteCohort, FinalizedUnused
  <2> QED BY <1>2, <2>1, <2>2, CohortsStep
<1>3. CASE WriteQueue /\ w \in p.todo /\ cq'[w].team = p.wss[w].team
  BY <1>0, <1>3 DEF WriteQueue, TreeReady
<1> QED BY <1>0, <1>1, <1>2, <1>3, QueueEffect

-----------------------------------------------------------------------------
(* The pass *)

\* What a pass has listed and validated stays with it to the end, and the stages
\* follow each other in order.
LEMMA PassMoves ==
    ASSUME TypeOK, WorkNamed, WorkerStep, p'.pc \in {"check", "cohorts", "read", "write"}
    PROVE  /\ p'.supply = p.supply
           /\ \/ ListWorkspaces /\ p'.pc = "check" /\ p' = [p EXCEPT !.pc = "check", !.wss = ws]
              \/ CheckPool /\ p'.pc = "cohorts" /\ p'.todo = Listed(p.teams) /\ UNCHANGED <<p.teams, p.wss>>
              \/ ApplyCohort /\ p' = [p EXCEPT !.todo = @ \ {Min(p.todo)}]
              \/ CohortsDone /\ p'.pc = "read"
              \/ /\ p.pc \in {"read", "write"} /\ p'.pc \in {"read", "write"}
                 /\ p'.todo \subseteq p.todo /\ p'.wss = p.wss /\ cohort' = cohort
<1>0. p \in Pass
  BY DEF TypeOK
<1>1. (p' # Idle) /\ (p' # [Idle EXCEPT !.pc = "holdList"])
  BY DEF Idle
<1>2. CASE ListTeams
  <2>1. p' = [Idle EXCEPT !.pc = "workspaces", !.teams = team, !.supply = supply]
    BY <1>1, <1>2 DEF ListTeams
  <2> QED BY <2>1 DEF Idle
<1>3. CASE ListWorkspaces
  <2>1. p' = [p EXCEPT !.pc = "check", !.wss = ws]
    BY <1>1, <1>3 DEF ListWorkspaces
  <2> QED BY <1>0, <1>3, <2>1 DEF Pass
<1>4. CASE CheckPool
  <2> DEFINE a == Allocated(p.teams)
             b == AllowCreate(p.wss)
             l == Listed(p.teams)
  <2>1. p' = [p EXCEPT !.pc = "cohorts", !.todo = l, !.pool = a, !.create = b]
    BY <1>1, <1>4 DEF CheckPool
  <2> HIDE DEF a, b, l
  <2>2. p'.pc = "cohorts" /\ p'.todo = l /\ p'.supply = p.supply /\ UNCHANGED <<p.teams, p.wss>>
    BY <1>0, <2>1 DEF Pass
  <2> QED BY <1>4, <2>2 DEF l
<1>5. ASSUME NEW m, p' = [p EXCEPT !.todo = @ \ {m}]
      PROVE  p'.supply = p.supply /\ p'.pc = p.pc /\ p'.todo \subseteq p.todo /\ p'.wss = p.wss
  BY <1>0, <1>5 DEF Pass
<1>6. CASE ApplyCohort
  <2>1. p' = [p EXCEPT !.todo = @ \ {Min(p.todo)}]
    BY <1>1, <1>6 DEF ApplyCohort
  <2> QED BY <1>5, <1>6, <2>1
<1>7. CASE RecoverHold
  BY <1>5, <1>7 DEF RecoverHold
<1>8. CASE HoldNext \/ HoldFails
  BY <1>5, <1>8 DEF HoldNext, HoldFails
<1>9. CASE CohortsDone
  BY <1>0, <1>9 DEF CohortsDone, Pass
<1>10. CASE ReadQueue
  <2> DEFINE k == KeptPolicy(cq[Min(p.todo)])
             r == cq[Min(p.todo)].resv
  <2>1. p' = [p EXCEPT !.pc = "write", !.keep = k, !.resv = r]
    BY <1>1, <1>10 DEF ReadQueue
  <2> HIDE DEF k, r
  <2>2. p'.pc = "write" /\ p'.supply = p.supply /\ p'.todo = p.todo /\ p'.wss = p.wss
    BY <1>0, <2>1 DEF Pass
  <2> QED BY <1>10, <2>2 DEF ReadQueue
<1>11. CASE WriteQueue
  <2>1. \E m : p' = [p EXCEPT !.pc = "read", !.todo = @ \ {m}, !.keep = "None", !.resv = 0]
    BY <1>1, <1>11 DEF WriteQueue
  <2>2. p'.pc = "read" /\ p'.supply = p.supply /\ p'.todo \subseteq p.todo /\ p'.wss = p.wss
    BY <1>0, <2>1 DEF Pass
  <2> QED BY <1>11, <2>2 DEF WriteQueue
<1>12. CASE HoldList
  BY <1>12 DEF HoldList, Idle
<1>13. ASSUME NEW w \in Workspaces, CleanupWs(w) PROVE FALSE
  BY <1>13 DEF CleanupWs, Idle
<1>14. ASSUME NEW t \in Teams, FinalizeTeam(t) PROVE FALSE
  BY <1>14 DEF FinalizeTeam, Idle
<1>15. CASE CleanupStep
  BY <1>0, <1>1, <1>15 DEF CleanupStep, DeleteCohort, DropTeamFinalizer, DeleteQueue, DropWsFinalizer, Pass
<1>16. CASE PassDone \/ HoldDone \/ CallFails \/ Abort
  BY <1>1, <1>16 DEF PassDone, HoldDone, CallFails, Abort
<1> QED BY <1>2, <1>3, <1>4, <1>6, <1>7, <1>8, <1>9, <1>10, <1>11, <1>12, <1>13, <1>14, <1>15, <1>16
        DEF WorkerStep, PassStep, HoldStep

\* Creating the Cohort of a listed team does not change which teams are listed.
LEMMA ListedKept ==
    ASSUME PoolInv, ApplyCohort, p' = [p EXCEPT !.todo = @ \ {Min(p.todo)}]
    PROVE  /\ Listed(p.teams)' = Listed(p.teams)
           /\ p'.teams = p.teams /\ p'.wss = p.wss /\ p'.supply = p.supply /\ p'.pc = "cohorts"
           /\ p'.todo = p.todo \ {Min(p.todo)}
           /\ \A t \in {Min(p.todo)} : Established(t)'
           /\ \A t \in Teams \ {Min(p.todo)} : cohort'[t] = cohort[t]
<1> DEFINE m == Min(p.todo)
           c == [up |-> TRUE, nominal |-> p.teams[m].quota, limit |-> p.teams[m].limit]
<1>0. p \in Pass /\ cohort \in [Teams -> CohortObject] /\ p.pc = "cohorts" /\ p.todo # {}
  BY DEF PoolInv, TypeOK, ApplyCohort
<1>1. m \in p.todo /\ m \in Teams /\ m \in Listed(p.teams)
  BY <1>0, NextOfKind DEF PoolInv, CohortsApplied
<1>2. p' # [Idle EXCEPT !.pc = "holdList"]
  BY <1>0 DEF Idle, Pass
<1>3. \/ cohort' = cohort /\ cohort[m] = c
      \/ ~cohort[m].up /\ cohort' = [cohort EXCEPT ![m] = c]
  BY <1>2 DEF ApplyCohort, Established
<1>4. p'.teams = p.teams /\ p'.wss = p.wss /\ p'.supply = p.supply /\ p'.pc = "cohorts" /\ p'.todo = p.todo \ {m}
  BY <1>0 DEF Pass
<1>5. c.up
  OBVIOUS
<1>6. cohort'[m] = c /\ \A t \in Teams \ {m} : cohort'[t] = cohort[t]
  <2> HIDE DEF m, c
  <2> QED BY <1>0, <1>1, <1>3
<1>7. p'.teams[m] = p.teams[m]
  BY <1>4
<1>8. \A t \in {m} : Established(t)'
  BY <1>6, <1>7 DEF Established
<1>9. Listed(p.teams)' = Listed(p.teams)
  <2> HIDE DEF m, c
  <2>1. \A t \in Teams : t \in Listed(p.teams)' <=> t \in Listed(p.teams)
    BY <1>0, <1>1, <1>4, <1>5, <1>6 DEF Listed
  <2> QED BY <2>1 DEF Listed
<1> QED BY <1>4, <1>6, <1>8, <1>9

\* The lists of a pass cover the tree: nothing can have appeared in between,
\* because every Cohort is created by the pass itself.
LEMMA ListsStep ==
    ASSUME PoolInv, [Next]_vars
    PROVE  ListsCover'
<1>0. TypeOK /\ WorkNamed /\ ListsCover /\ p \in Pass
  BY DEF PoolInv, TypeOK
<1>1. CASE OtherStep \/ UNCHANGED vars
  <2>1. UNCHANGED <<p, cohort>>
    BY <1>1, OtherFrame
  <2> QED BY <1>0, <2>1 DEF ListsCover, Listed, Selected
<1>2. CASE WorkerStep /\ p'.pc \in {"check", "cohorts"}
  <2>1. CASE ListWorkspaces /\ p' = [p EXCEPT !.pc = "check", !.wss = ws]
    <3>1. p'.teams = p.teams /\ p'.wss = ws /\ cohort' = cohort
      BY <1>0, <2>1 DEF ListWorkspaces, Pass
    <3>2. p' # [Idle EXCEPT !.pc = "holdList"]
      BY <1>2 DEF Idle
    <3>3. (\A w \in Selected(ws) : WorkspaceAcceptable(w, ws, p.teams)) /\ NoStrangers(ws, p.teams)
      BY <2>1, <3>2 DEF ListWorkspaces
    <3>4. Listed(p.teams)' = Listed(p.teams) /\ Selected(p.wss)' = Selected(ws)
      BY <3>1 DEF Listed, Selected
    <3> QED BY <3>1, <3>3, <3>4 DEF ListsCover, WorkspaceAcceptable, NoStrangers
  <2>2. CASE CheckPool /\ UNCHANGED <<p.teams, p.wss>>
    <3>1. cohort' = cohort /\ p.pc = "check"
      BY <2>2 DEF CheckPool
    <3>2. Listed(p.teams)' = Listed(p.teams) /\ Selected(p.wss)' = Selected(p.wss)
      BY <2>2, <3>1 DEF Listed, Selected
    <3> QED BY <1>0, <2>2, <3>1, <3>2 DEF ListsCover
  <2>3. CASE ApplyCohort /\ p' = [p EXCEPT !.todo = @ \ {Min(p.todo)}]
    <3>1. /\ Listed(p.teams)' = Listed(p.teams) /\ p'.wss = p.wss /\ p.pc = "cohorts" /\ p.todo # {}
          /\ \A t \in Teams \ {Min(p.todo)} : cohort'[t] = cohort[t]
      BY <2>3, ListedKept DEF ApplyCohort
    <3>2. Selected(p.wss)' = Selected(p.wss)
      BY <3>1 DEF Selected
    <3>3. Min(p.todo) \in Listed(p.teams)
      BY <1>0, <3>1, NextOfKind DEF PoolInv, CohortsApplied
    <3> QED BY <1>0, <3>1, <3>2, <3>3 DEF ListsCover
  <2> QED BY <1>0, <1>2, <2>1, <2>2, <2>3, PassMoves
<1> QED BY <1>1, <1>2, StepKinds DEF ListsCover

\* Each Cohort is compared or created from the validated list, so that those behind
\* the pass are what has been validated.
LEMMA AppliedStep ==
    ASSUME PoolInv, [Next]_vars
    PROVE  CohortsApplied'
<1>0. TypeOK /\ WorkNamed /\ CohortsApplied /\ p \in Pass
  BY DEF PoolInv, TypeOK
<1>1. CASE OtherStep \/ UNCHANGED vars
  <2>1. UNCHANGED <<p, cohort>>
    BY <1>1, OtherFrame
  <2> QED BY <1>0, <2>1 DEF CohortsApplied, Listed, GuaranteesFit, Allocated, Established
<1>2. CASE WorkerStep /\ p'.pc = "cohorts"
  <2>1. CASE CheckPool /\ p'.todo = Listed(p.teams) /\ UNCHANGED <<p.teams, p.wss>>
    <3>1. cohort' = cohort /\ p'.supply = p.supply
      BY <1>0, <1>2, <2>1, PassMoves DEF CheckPool
    <3>2. p' # [Idle EXCEPT !.pc = "holdList"]
      BY <1>2 DEF Idle
    <3>3. GuaranteesFit(p.teams, p.supply)
      BY <2>1, <3>2 DEF CheckPool
    <3>4. Listed(p.teams)' = Listed(p.teams)
      BY <2>1, <3>1 DEF Listed
    <3>5. GuaranteesFit(p.teams, p.supply)'
      BY <2>1, <3>1, <3>3, <3>4 DEF GuaranteesFit, Allocated
    <3> QED BY <2>1, <3>4, <3>5 DEF CohortsApplied
  <2>2. CASE ApplyCohort /\ p' = [p EXCEPT !.todo = @ \ {Min(p.todo)}]
    <3>1. /\ Listed(p.teams)' = Listed(p.teams) /\ p'.teams = p.teams /\ p'.supply = p.supply
          /\ p'.todo = p.todo \ {Min(p.todo)} /\ p.pc = "cohorts"
          /\ \A t \in {Min(p.todo)} : Established(t)'
          /\ \A t \in Teams \ {Min(p.todo)} : cohort'[t] = cohort[t]
      BY <2>2, ListedKept DEF ApplyCohort
    <3>2. GuaranteesFit(p.teams, p.supply)'
      BY <1>0, <3>1 DEF CohortsApplied, GuaranteesFit, Allocated
    <3>3. ASSUME NEW t \in Listed(p.teams) \ p'.todo PROVE Established(t)'
      <4>1. t \in Teams
        BY DEF Listed
      <4>2. CASE t # Min(p.todo)
        <5>1. Established(t)
          BY <1>0, <3>1, <3>3, <4>2 DEF CohortsApplied
        <5> QED BY <3>1, <4>1, <4>2, <5>1 DEF Established
      <4> QED BY <3>1, <4>2
    <3> QED BY <1>0, <3>1, <3>2, <3>3 DEF CohortsApplied
  <2> QED BY <1>0, <1>2, <2>1, <2>2, PassMoves
<1> QED BY <1>1, <1>2, StepKinds DEF CohortsApplied

\* The tree in Kueue is no larger than what has been validated, once every listed
\* Cohort is as desired and there are no others.
LEMMA TreeFits ==
    ASSUME PoolInv, p.pc = "cohorts", p.todo = {}
    PROVE  Tree <= p.supply
<1> DEFINE S == Listed(p.teams)
           f == [t \in Teams |-> cohort[t].nominal]
           g == [t \in S |-> p.teams[t].quota]
<1>0. p \in Pass /\ cohort \in [Teams -> CohortObject]
  BY DEF PoolInv, TypeOK
<1>1. S \subseteq Teams /\ IsFiniteSet(Teams)
  BY PoolConstants DEF Listed
<1>2. IsFiniteSet(S)
  BY <1>1, FS_Subset
<1>3. f \in [Teams -> Nat]
  <2>1. \A t \in Teams : cohort[t].nominal \in Nat
    BY <1>0, PoolConstants DEF CohortObject
  <2> QED BY <2>1
<1>4. g \in [S -> Nat]
  <2>1. \A t \in Teams : p.teams[t].quota \in Nat
    BY <1>0, PoolConstants DEF Pass, TeamObject
  <2> QED BY <1>1, <2>1
<1>5. \A t \in Teams : f[t] = 0 \/ (t \in S /\ f[t] <= g[t])
  <2> SUFFICES ASSUME NEW t \in Teams PROVE f[t] = 0 \/ (t \in S /\ f[t] <= g[t])
    OBVIOUS
  <2>1. CASE ~cohort[t].up
    BY <2>1 DEF PoolInv, CohortsPlain, NoCohort
  <2>2. CASE cohort[t].up
    <3>1. t \in S
      BY <2>2 DEF PoolInv, ListsCover
    <3>2. Established(t)
      BY <3>1 DEF PoolInv, CohortsApplied
    <3>3. f[t] = g[t]
      BY <3>1, <3>2 DEF Established
    <3> QED BY <1>3, <3>1, <3>3
  <2> QED BY <2>1, <2>2
<1>6. SumOver(f) <= SumOver(g) /\ SumOver(f) \in Nat /\ SumOver(g) \in Nat
  <2> HIDE DEF S, f, g
  <2> QED BY <1>1, <1>2, <1>3, <1>4, <1>5, SumCovers, SumNat
<1>7. Spare + SumOver(g) <= p.supply
  BY DEF PoolInv, CohortsApplied, GuaranteesFit, Allocated
<1>8. Tree = Spare + SumOver(f)
  BY DEF Tree
<1>9. p.supply \in Nat /\ Spare \in Nat
  BY <1>0, PoolConstants DEF Pass
<1> HIDE DEF f, g
<1> QED BY <1>6, <1>7, <1>8, <1>9

\* When the pass comes to the queues, its tree is in Kueue and fits, and stays so:
\* nobody else creates or deletes a Cohort while the pass holds the mutex.
LEMMA ReadyStep ==
    ASSUME PoolInv, [Next]_vars
    PROVE  TreeReady'
<1>0. TypeOK /\ WorkNamed /\ TreeReady /\ p \in Pass
  BY DEF PoolInv, TypeOK
<1>1. CASE OtherStep \/ UNCHANGED vars
  <2>1. UNCHANGED <<p, cohort>>
    BY <1>1, OtherFrame
  <2> QED BY <1>0, <2>1 DEF TreeReady, Tree
<1>2. CASE WorkerStep /\ p'.pc \in {"read", "write"}
  <2>1. CASE CohortsDone
    <3>1. p.pc = "cohorts" /\ p.todo = {} /\ cohort' = cohort
      BY <2>1 DEF CohortsDone
    <3>2. p'.todo = Selected(p.wss) /\ p'.wss = p.wss /\ p'.supply = p.supply
      BY <1>0, <2>1 DEF CohortsDone, Pass
    <3>3. Tree' = Tree
      BY <3>1 DEF Tree
    <3>4. ASSUME NEW w \in Selected(p.wss) PROVE p.wss[w].team \in Teams /\ cohort[p.wss[w].team].up
      <4>1. p.wss[w].team \in Listed(p.teams)
        BY <3>1 DEF PoolInv, ListsCover
      <4>2. Established(p.wss[w].team)
        BY <3>1, <4>1 DEF PoolInv, CohortsApplied
      <4> QED BY <4>1, <4>2 DEF Established, Listed
    <3> QED BY <3>1, <3>2, <3>3, <3>4, TreeFits DEF TreeReady
  <2>2. CASE /\ p.pc \in {"read", "write"} /\ p'.todo \subseteq p.todo /\ p'.wss = p.wss
             /\ cohort' = cohort /\ p'.supply = p.supply
    BY <1>0, <2>2 DEF TreeReady, Tree
  <2>3. ApplyCohort /\ p' = [p EXCEPT !.todo = @ \ {Min(p.todo)}] => p'.pc = "cohorts"
    BY ListedKept
  <2> QED BY <1>0, <1>2, <2>1, <2>2, <2>3, PassMoves
<1> QED BY <1>1, <1>2, StepKinds DEF TreeReady

-----------------------------------------------------------------------------
(* The theorems *)

\* The invariant holds at the start ...
LEMMA InitInv == Init => PoolInv
<1> SUFFICES ASSUME Init PROVE PoolInv
  OBVIOUS
<1>1. TypeOK
  BY PoolConstants, ResetsType DEF Init, TypeOK
<1>2. p.pc = "idle"
  BY DEF Init, Idle
<1>3. CohortsPlain /\ QueuesAttached
  BY DEF Init, CohortsPlain, QueuesAttached, NoQueue
<1> QED BY <1>1, <1>2, <1>3 DEF PoolInv, WorkNamed, ListsCover, CohortsApplied, TreeReady, FinalizedUnused

\* ... and every step keeps it.
LEMMA NextInv == PoolInv /\ [Next]_vars => PoolInv'
<1> SUFFICES ASSUME PoolInv, [Next]_vars PROVE PoolInv'
  OBVIOUS
<1>1. TypeOK' /\ WorkNamed'
  BY TypeStep DEF PoolInv
<1>2. CohortsPlain' /\ QueuesAttached' /\ FinalizedUnused'
  BY CohortsStep, AttachedStep, FinalizedStep
<1>3. ListsCover' /\ CohortsApplied' /\ TreeReady'
  BY ListsStep, AppliedStep, ReadyStep
<1> QED BY <1>1, <1>2, <1>3 DEF PoolInv

\* Type correctness: no Cohort or queue gets a negative quota, and the controller's
\* lists stay lists of names of the right kind.
THEOREM PoolTypeCorrect == Spec => []TypeOK
<1>1. PoolInv => TypeOK
  BY DEF PoolInv
<1> QED BY <1>1, InitInv, NextInv, PTL DEF Spec

\* No ClusterQueue ever points to a Cohort that does not exist: finalizeTeam and a
\* pass that moves queues between teams cannot meet, however often either fails or
\* the controller restarts between two calls.
THEOREM TreeSafe == Spec => []TreeIntact
<1>1. PoolInv => TreeIntact
  BY DEF PoolInv, QueuesAttached, TreeIntact
<1> QED BY <1>1, InitInv, NextInv, PTL DEF Spec

\* The controller opens a queue to admission only while the tree in Kueue fits the
\* inventory that its pass has read, although users have edited the teams since the
\* pass validated them.
THEOREM OpensSafe == Spec => OpensWithinSupply
<1> DEFINE Fits == \A w \in Workspaces : /\ p.pc \in {"read", "write"}
                                         /\ ~Open(cq[w]) /\ Open(cq'[w])
                                         => Tree <= p.supply
<1>1. PoolInv /\ [Next]_vars => [Fits]_vars
  BY DEF PoolInv, TreeReady
<1> QED BY <1>1, InitInv, NextInv, PTL DEF Spec, OpensWithinSupply
=============================================================================
