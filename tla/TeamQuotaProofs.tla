--------------------------- MODULE TeamQuotaProofs ---------------------------
(***************************************************************************)
(* Machine-checked proofs about TeamQuota, for any finite sets of teams    *)
(* and workspaces and any values of the bounds.                            *)
(***************************************************************************)
EXTENDS TeamQuota, QuotaSumsProofs

-----------------------------------------------------------------------------
(* Types *)

\* The arithmetic of sharedTeamQuotaForWorkspace stays within the integers.
LEMMA SharedInt ==
    ASSUME TypeOK, NEW t, NEW quota \in Quota, NEW view \in [Workspaces -> WsObject]
    PROVE  SharedTeamQuota(t, quota, view) \in Int
<1> DEFINE f == [w \in Workspaces |-> Effective(t, w, view)]
<1>1. f \in [Workspaces -> Nat]
  BY ConstantsAssumption DEF TypeOK, Effective, Larger, Held, InCohort, WsObject, QueueObject, Quota
<1>2. SumOver(f) \in Nat
  <2> HIDE DEF f
  <2> QED BY <1>1, SumNat, ConstantsAssumption
<1>3. quota \in Int
  BY ConstantsAssumption DEF Quota
<1> QED BY <1>2, <1>3 DEF SharedTeamQuota, Guarantees

\* The initial and the reset values are well typed.
LEMMA ConstantsType ==
    /\ 0 \in Quota /\ 0 \in 0..MaxBorrow
    /\ NoTeamObject \in TeamObject /\ NoWsObject \in WsObject
    /\ NoCohort \in CohortObject /\ NoQueue \in QueueObject
    /\ TeamIdle \in TeamWorker /\ WsIdle \in WsWorker
<1>1. 0 \in Quota /\ 0 \in 0..MaxBorrow
  BY ConstantsAssumption DEF Quota
<1> QED BY <1>1 DEF NoTeamObject, TeamObject, NoWsObject, WsObject, NoCohort, CohortObject, NoQueue,
            QueueObject, TeamIdle, TeamWorker, WsIdle, WsWorker, ObjectState

\* A status update (reportTeamStatus) changes nothing but the Ready field.
LEMMA ReportType ==
    ASSUME TypeOK, NEW b \in BOOLEAN, tw.team \in Teams, ReportTeamStatus(b)
    PROVE  team' \in [Teams -> TeamObject] /\ lock' = "free" /\ tw' = TeamIdle
BY DEF TypeOK, ReportTeamStatus, TeamDone, TeamObject

\* The variables keep their types under every step of the TauTeam reconciler.
LEMMA TeamStepType ==
    ASSUME TypeOK, TeamStep, tw.pc # "idle" => tw.team \in Teams
    PROVE  TypeOK'
<1> USE ConstantsType
<1>1. ASSUME TeamValidate PROVE TypeOK'
  <2> DEFINE shared == SharedTeamQuota(tw.team, tw.quota, ws)
  <2>1. shared \in Int
    BY SharedInt DEF TypeOK, TeamWorker
  <2>2. \/ ReportTeamStatus(FALSE)
        \/ /\ shared >= 0
           /\ tw' = [tw EXCEPT !.pc = "check", !.shared = shared]
           /\ UNCHANGED <<team, lock>>
    BY <1>1 DEF TeamValidate, GuaranteesFit
  <2>3. UNCHANGED <<ws, cohort, cq, ww, granted, edits, faults>> /\ tw.team \in Teams
    BY <1>1 DEF TeamValidate
  <2> HIDE DEF shared
  <2>4. CASE ReportTeamStatus(FALSE)
    BY <2>3, <2>4, ReportType DEF TypeOK
  <2>5. CASE /\ shared >= 0
             /\ tw' = [tw EXCEPT !.pc = "check", !.shared = shared]
             /\ UNCHANGED <<team, lock>>
    <3>1. shared \in Nat
      BY <2>1, <2>5
    <3>2. tw' \in TeamWorker
      BY <2>5, <3>1 DEF TypeOK, TeamWorker
    <3> QED BY <2>3, <2>5, <3>2 DEF TypeOK
  <2> QED BY <2>2, <2>4, <2>5
<1>2. ASSUME TeamCheckCohort PROVE TypeOK'
  <2>1. UNCHANGED <<ws, cohort, cq, ww, granted, edits, faults>> /\ tw.team \in Teams
    BY <1>2 DEF TeamCheckCohort
  <2>2. CASE ReportTeamStatus(FALSE)
    BY <2>1, <2>2, ReportType DEF TypeOK
  <2>3. CASE tw' = [tw EXCEPT !.pc = "write"] /\ UNCHANGED <<team, lock>>
    BY <2>1, <2>3 DEF TypeOK, TeamWorker
  <2> QED BY <1>2, <2>2, <2>3 DEF TeamCheckCohort
<1>3. ASSUME TeamWriteCohort PROVE TypeOK'
  BY <1>3 DEF TypeOK, TeamWriteCohort, WriteCohort, TeamWorker, CohortObject
<1>4. ASSUME TeamReportReady PROVE TypeOK'
  BY <1>4, ReportType DEF TypeOK, TeamReportReady
<1>5. ASSUME TeamFinalize PROVE TypeOK'
  <2>1. UNCHANGED <<ws, cohort, cq, ww, granted, edits, faults>> /\ tw.team \in Teams
    BY <1>5 DEF TeamFinalize
  <2>2. CASE ReportTeamStatus(FALSE)
    BY <2>1, <2>2, ReportType DEF TypeOK
  <2>3. CASE tw' = [tw EXCEPT !.pc = "deleteCohort"] /\ UNCHANGED <<team, lock>>
    BY <2>1, <2>3 DEF TypeOK, TeamWorker
  <2> QED BY <1>5, <2>2, <2>3 DEF TeamFinalize
<1>6. ASSUME TeamDeleteCohort PROVE TypeOK'
  BY <1>6 DEF TypeOK, TeamDeleteCohort, TeamWorker
<1>7. ASSUME TeamRemoveFinalizer PROVE TypeOK'
  BY <1>7 DEF TypeOK, TeamRemoveFinalizer, TeamDone
<1> QED BY <1>1, <1>2, <1>3, <1>4, <1>5, <1>6, <1>7 DEF TeamStep

\* The variables keep their types under every step of the TauWorkspace reconciler.
LEMMA WsStepType ==
    ASSUME TypeOK, LockDiscipline, WsStep
    PROVE  TypeOK'
<1> USE ConstantsType
<1> DEFINE shared == SharedTeamQuota(ww.spec.team, ww.tquota, Proposed)
<1>a. ww.pc # "idle" => ww.ws \in Workspaces
  BY DEF LockDiscipline
<1>b. ww \in WsWorker /\ ww.spec \in WsObject /\ ww.tquota \in Quota
  BY DEF TypeOK, WsWorker
<1>c. shared \in Int
  <2>1. Proposed \in [Workspaces -> WsObject]
    BY <1>b DEF TypeOK, Proposed
  <2> QED BY <1>b, <2>1, SharedInt
<1> HIDE DEF shared
<1>1. ASSUME WsGetTeam PROVE TypeOK'
  <2>1. ww.spec.team \in Teams
    BY <1>1 DEF LockDiscipline, WsGetTeam
  <2> DEFINE t == team[ww.spec.team]
  <2>2. t \in TeamObject
    BY <2>1 DEF TypeOK
  <2>3. CASE WsDone
    BY <1>1, <2>3 DEF TypeOK, WsGetTeam, WsDone, store
  <2>4. CASE /\ ww' = [ww EXCEPT !.pc = "validate", !.tquota = t.quota,
                              !.tready = t.ready, !.tdeleting = (t.st = "deleting")]
             /\ UNCHANGED lock
    <3>1. ww' \in WsWorker
      <4> HIDE DEF t
      <4> QED BY <1>b, <2>2, <2>4 DEF WsWorker, TeamObject
    <3> QED BY <1>1, <2>4, <3>1 DEF TypeOK, WsGetTeam, store
  <2> QED BY <1>1, <2>3, <2>4 DEF WsGetTeam
<1>2. ASSUME WsValidate PROVE TypeOK'
  <2>1. \/ WsDone
        \/ UNCHANGED lock /\ ww' = [ww EXCEPT !.pc = "queue"]
        \/ /\ UNCHANGED lock /\ GuaranteesFit(shared)
           /\ ww' = [ww EXCEPT !.pc = "check", !.shared = shared]
    BY <1>2 DEF WsValidate, shared
  <2>2. lock' \in {"free", "team", "workspace"} /\ ww' \in WsWorker
    <3>1. GuaranteesFit(shared) => shared \in Nat
      BY <1>c DEF GuaranteesFit
    <3> QED BY <1>b, <2>1, <3>1 DEF TypeOK, WsDone, WsWorker
  <2> QED BY <1>2, <2>2 DEF TypeOK, WsValidate, store
<1>3. ASSUME WsCheckCohort PROVE TypeOK'
  BY <1>3, <1>b DEF TypeOK, WsCheckCohort, WsDone, WsWorker, store
<1>4. ASSUME WsWriteCohortBefore PROVE TypeOK'
  <2>1. ww' \in WsWorker
    BY <1>4, <1>b DEF WsWriteCohortBefore, WsWorker
  <2> QED BY <1>4, <2>1 DEF TypeOK, WsWriteCohortBefore, WriteCohort, CohortObject, WsWorker
<1>5. ASSUME WsWriteQueue PROVE TypeOK'
  <2> DEFINE desired == DesiredQueue(ww.ws, ww.spec)
  <2>1. ww.ws \in Workspaces
    BY <1>5, <1>a DEF WsWriteQueue
  <2>2. desired \in QueueObject
    BY <1>b, <2>1 DEF TypeOK, DesiredQueue, QueueObject, WsObject
  <2>3. cq' \in [Workspaces -> QueueObject]
    BY <1>5, <2>2 DEF TypeOK, WsWriteQueue
  <2>4. lock' \in {"free", "team", "workspace"} /\ ww' \in WsWorker
    BY <1>5, <1>b DEF TypeOK, WsWriteQueue, WsDone, WsWorker
  <2> QED BY <1>5, <2>3, <2>4 DEF TypeOK, WsWriteQueue
<1>6. ASSUME WsRecheckCohort PROVE TypeOK'
  <2>1. \/ WsDone
        \/ /\ UNCHANGED lock /\ GuaranteesFit(shared)
           /\ ww' = [ww EXCEPT !.pc = "cohortAfter", !.shared = shared]
    BY <1>6 DEF WsRecheckCohort, shared
  <2>2. lock' \in {"free", "team", "workspace"} /\ ww' \in WsWorker
    <3>1. GuaranteesFit(shared) => shared \in Nat
      BY <1>c DEF GuaranteesFit
    <3> QED BY <1>b, <2>1, <3>1 DEF TypeOK, WsDone, WsWorker
  <2> QED BY <1>6, <2>2 DEF TypeOK, WsRecheckCohort, store
<1>7. ASSUME WsWriteCohortAfter PROVE TypeOK'
  BY <1>7, <1>b DEF TypeOK, WsWriteCohortAfter, WriteCohort, CohortObject, WsDone, WsWorker
<1>8. ASSUME WsDeleteQueue PROVE TypeOK'
  <2>1. lock' \in {"free", "team", "workspace"} /\ ww' \in WsWorker
    BY <1>8, <1>b DEF TypeOK, WsDeleteQueue, WsDone, WsWorker
  <2>2. cq' \in [Workspaces -> QueueObject]
    <3>1. ww.ws \in Workspaces /\ cq[ww.ws] \in QueueObject
      BY <1>8, <1>a DEF TypeOK, WsDeleteQueue
    <3>2. [cq[ww.ws] EXCEPT !.term = TRUE] \in QueueObject
      BY <3>1 DEF QueueObject
    <3>3. \E q \in QueueObject : cq' = [cq EXCEPT ![ww.ws] = q]
      BY <1>8, <3>1, <3>2 DEF WsDeleteQueue
    <3> QED BY <3>3 DEF TypeOK
  <2> QED BY <1>8, <2>1, <2>2 DEF TypeOK, WsDeleteQueue
<1>9. ASSUME WsRemoveFinalizer PROVE TypeOK'
  BY <1>9 DEF TypeOK, WsRemoveFinalizer, WsDone
<1> QED BY <1>1, <1>2, <1>3, <1>4, <1>5, <1>6, <1>7, <1>8, <1>9 DEF WsStep

\* ... under an edit of a team or a workspace object ...
LEMMA UserStepType ==
    ASSUME TypeOK, UserStep
    PROVE  TypeOK'
<1> USE ConstantsType
<1>1. ASSUME NEW t \in Teams, NEW o \in TeamObject, TeamChange(t, o) PROVE TypeOK'
  <2>1. tw' \in TeamWorker
    BY <1>1 DEF TypeOK, TeamChange, TeamWorker
  <2>2. team' \in [Teams -> TeamObject]
    BY <1>1 DEF TypeOK, TeamChange
  <2>3. edits' \in 0..EditBudget
    BY <1>1, ConstantsAssumption DEF TypeOK, TeamChange, Edit
  <2> QED BY <1>1, <2>1, <2>2, <2>3 DEF TypeOK, TeamChange, Edit
<1>2. ASSUME NEW w \in Workspaces, NEW o \in WsObject, WsChange(w, o) PROVE TypeOK'
  <2>1. ws' \in [Workspaces -> WsObject]
    BY <1>2 DEF TypeOK, WsChange
  <2>2. edits' \in 0..EditBudget
    BY <1>2, ConstantsAssumption DEF TypeOK, WsChange, Edit
  <2> QED BY <1>2, <2>1, <2>2 DEF TypeOK, WsChange, Edit
<1>3. ASSUME NEW t \in Teams, DeleteTeam(t) \/ \E q \in Quota : CreateTeam(t, q) \/ EditTeam(t, q)
      PROVE  TypeOK'
  <2>1. team[t] \in TeamObject
    BY DEF TypeOK
  <2>2. \E o \in TeamObject : TeamChange(t, o)
    BY <1>3, <2>1 DEF DeleteTeam, CreateTeam, EditTeam, TeamObject, ObjectState
  <2> QED BY <2>2, <1>1
<1>4. ASSUME NEW w \in Workspaces,
             \/ DeleteWs(w)
             \/ \E t \in Teams \cup {NoTeam}, q \in Quota, b \in 0..MaxBorrow :
                   CreateWs(w, t, q, b) \/ EditWs(w, t, q, b)
      PROVE  TypeOK'
  <2>1. ws[w] \in WsObject
    BY DEF TypeOK
  <2>2. \E o \in WsObject : WsChange(w, o)
    BY <1>4, <2>1 DEF DeleteWs, CreateWs, EditWs, WsObject, ObjectState
  <2> QED BY <2>2, <1>2
<1> QED BY <1>3, <1>4 DEF UserStep

\* ... and under every other step.
LEMMA NextType ==
    ASSUME TypeOK, LockDiscipline, [Next]_vars
    PROVE  TypeOK'
<1> USE ConstantsType
<1>1. CASE TeamStep
  BY <1>1, TeamStepType DEF LockDiscipline
<1>2. CASE TeamAbort
  BY <1>2, ConstantsAssumption DEF TypeOK, TeamAbort, TeamDone, store
<1>3. ASSUME NEW t \in Teams, TeamAddFinalizer(t) PROVE TypeOK'
  BY <1>3 DEF TypeOK, TeamAddFinalizer, TeamObject, ObjectState
<1>4. ASSUME NEW t \in Teams, TeamLock(t) PROVE TypeOK'
  <2>1. tw' \in TeamWorker
    BY <1>4 DEF TypeOK, TeamLock, TeamWorker, TeamObject
  <2> QED BY <1>4, <2>1 DEF TypeOK, TeamLock, store
<1>5. CASE WsStep
  BY <1>5, WsStepType
<1>6. CASE WsLock
  BY <1>6 DEF TypeOK, WsLock, WsDone, WsWorker, store
<1>7. CASE WsAbort
  BY <1>7, ConstantsAssumption DEF TypeOK, WsAbort, store
<1>8. ASSUME NEW w \in Workspaces, WsAddFinalizer(w) PROVE TypeOK'
  BY <1>8 DEF TypeOK, WsAddFinalizer, WsObject, ObjectState
<1>9. ASSUME NEW w \in Workspaces, WsRead(w) \/ WsCleanupLock(w) PROVE TypeOK'
  <2>1. ws[w] \in WsObject
    BY DEF TypeOK
  <2>2. ww' \in WsWorker
    BY <1>9, <2>1 DEF WsRead, WsCleanupLock, WsWorker
  <2> QED BY <1>9, <2>2 DEF TypeOK, WsRead, WsCleanupLock, store
<1>10. ASSUME NEW w \in Workspaces, Reserve(w) \/ Release(w) PROVE TypeOK'
  <2>1. cq[w] \in QueueObject
    BY DEF TypeOK
  <2>2. \E q \in QueueObject : cq' = [cq EXCEPT ![w] = q]
    <3>1. CASE Reserve(w)
      <4>1. cq' = [cq EXCEPT ![w] = [cq[w] EXCEPT !.resv = cq[w].resv + 1]]
        BY <3>1 DEF Reserve
      <4>2. [cq[w] EXCEPT !.resv = cq[w].resv + 1] \in QueueObject
        BY <2>1 DEF QueueObject
      <4> QED BY <4>1, <4>2
    <3>2. CASE Release(w)
      <4>1. \/ cq' = [cq EXCEPT ![w] = NoQueue]
            \/ cq' = [cq EXCEPT ![w] = [cq[w] EXCEPT !.resv = cq[w].resv - 1]]
        BY <3>2 DEF Release
      <4>2. [cq[w] EXCEPT !.resv = cq[w].resv - 1] \in QueueObject
        BY <2>1, <3>2 DEF QueueObject, Release
      <4> QED BY <4>1, <4>2
    <3> QED BY <1>10, <3>1, <3>2
  <2> QED BY <1>10, <2>2 DEF TypeOK, Reserve, Release
<1>11. CASE UserStep
  BY <1>11, UserStepType
<1>12. CASE UNCHANGED vars
  BY <1>12 DEF TypeOK, vars
<1> QED BY <1>1, <1>2, <1>3, <1>4, <1>5, <1>6, <1>7, <1>8, <1>9, <1>10, <1>11, <1>12 DEF Next

\* A step of the TauTeam reconciler either keeps the mutex and the team it
\* works on, or ends with the deferred unlock.
LEMMA TeamStepLock ==
    ASSUME TypeOK, TeamStep
    PROVE  /\ tw.pc # "idle" /\ ww' = ww
           /\ \/ lock' = "free" /\ tw' = TeamIdle
              \/ lock' = lock /\ tw'.pc # "idle" /\ tw'.team = tw.team
<1> USE DEF TypeOK, TeamWorker, TeamDone, ReportTeamStatus
<1>1. CASE TeamValidate
  BY <1>1 DEF TeamValidate
<1>2. CASE TeamCheckCohort
  BY <1>2 DEF TeamCheckCohort
<1>3. CASE TeamWriteCohort
  BY <1>3 DEF TeamWriteCohort
<1>4. CASE TeamReportReady
  BY <1>4 DEF TeamReportReady
<1>5. CASE TeamFinalize
  BY <1>5 DEF TeamFinalize
<1>6. CASE TeamDeleteCohort
  BY <1>6 DEF TeamDeleteCohort
<1>7. CASE TeamRemoveFinalizer
  BY <1>7 DEF TeamRemoveFinalizer
<1> QED BY <1>1, <1>2, <1>3, <1>4, <1>5, <1>6, <1>7 DEF TeamStep

\* So does a step of the TauWorkspace reconciler.
LEMMA WsStepLock ==
    ASSUME TypeOK, WsStep
    PROVE  /\ ww.pc \notin {"idle", "wait"} /\ tw' = tw
           /\ \/ lock' = "free" /\ ww' = WsIdle
              \/ /\ lock' = lock /\ ww'.pc \notin {"idle", "wait"}
                 /\ ww'.ws = ww.ws /\ ww'.spec = ww.spec
                 /\ ww'.pc \in {"deleteQueue", "removeFinalizer"}
                       <=> ww.pc \in {"deleteQueue", "removeFinalizer"}
<1> USE DEF TypeOK, WsWorker, WsDone
<1>1. CASE WsGetTeam
  BY <1>1 DEF WsGetTeam
<1>2. CASE WsValidate
  BY <1>2 DEF WsValidate
<1>3. CASE WsCheckCohort
  BY <1>3 DEF WsCheckCohort
<1>4. CASE WsWriteCohortBefore
  BY <1>4 DEF WsWriteCohortBefore
<1>5. CASE WsWriteQueue
  BY <1>5 DEF WsWriteQueue
<1>6. CASE WsRecheckCohort
  BY <1>6 DEF WsRecheckCohort
<1>7. CASE WsWriteCohortAfter
  BY <1>7 DEF WsWriteCohortAfter
<1>8. CASE WsDeleteQueue
  BY <1>8 DEF WsDeleteQueue
<1>9. CASE WsRemoveFinalizer
  BY <1>9 DEF WsRemoveFinalizer
<1> QED BY <1>1, <1>2, <1>3, <1>4, <1>5, <1>6, <1>7, <1>8, <1>9 DEF WsStep

\* Users write objects; the goroutines only learn that a team they hold is stale.
LEMMA UserStepFrame ==
    ASSUME TypeOK, UserStep
    PROVE  /\ UNCHANGED <<cohort, cq, lock, ww, granted>>
           /\ tw'.pc = tw.pc /\ tw'.team = tw.team /\ tw'.quota = tw.quota
           /\ tw'.shared = tw.shared
<1>1. ASSUME NEW t \in Teams, NEW o, TeamChange(t, o)
      PROVE  /\ UNCHANGED <<cohort, cq, lock, ww, granted>>
             /\ tw'.pc = tw.pc /\ tw'.team = tw.team /\ tw'.quota = tw.quota
             /\ tw'.shared = tw.shared
  BY <1>1 DEF TypeOK, TeamWorker, TeamChange, Edit
<1>2. ASSUME NEW w \in Workspaces, NEW o, WsChange(w, o)
      PROVE  UNCHANGED <<cohort, cq, lock, ww, granted, tw>>
  BY <1>2 DEF WsChange, Edit
<1>3. \/ \E t \in Teams : \E o : TeamChange(t, o)
      \/ \E w \in Workspaces : \E o : WsChange(w, o)
  BY DEF UserStep, DeleteTeam, CreateTeam, EditTeam, DeleteWs, CreateWs, EditWs
<1> QED BY <1>1, <1>2, <1>3

\* lockTeamQuota and its deferred unlock: the mutex is held exactly while a
\* goroutine is between them.
LEMMA NextLock ==
    ASSUME TypeOK, LockDiscipline, [Next]_vars
    PROVE  LockDiscipline'
<1> USE DEF LockDiscipline
<1>1. CASE TeamStep
  BY <1>1, TeamStepLock DEF TeamIdle
<1>2. CASE TeamAbort
  BY <1>2 DEF TeamAbort, TeamDone, TeamIdle
<1>3. ASSUME NEW t \in Teams, TeamAddFinalizer(t) \/ TeamLock(t) PROVE LockDiscipline'
  BY <1>3 DEF TeamAddFinalizer, TeamLock, store
<1>4. CASE WsStep
  BY <1>4, WsStepLock DEF WsIdle
<1>5. CASE WsLock \/ WsAbort
  BY <1>5 DEF TypeOK, WsWorker, WsLock, WsAbort, WsDone, WsIdle
<1>6. ASSUME NEW w \in Workspaces, WsAddFinalizer(w) \/ WsRead(w) \/ WsCleanupLock(w)
      PROVE  LockDiscipline'
  BY <1>6 DEF TypeOK, WsObject, WsAddFinalizer, WsRead, WsCleanupLock, WsIdle, store
<1>7. ASSUME NEW w \in Workspaces, Reserve(w) \/ Release(w) PROVE LockDiscipline'
  BY <1>7 DEF Reserve, Release
<1>8. CASE UserStep
  BY <1>8, UserStepFrame
<1>9. CASE UNCHANGED vars
  BY <1>9 DEF vars
<1> QED BY <1>1, <1>2, <1>3, <1>4, <1>5, <1>6, <1>7, <1>8, <1>9 DEF Next

\* Before any controller has run nobody holds the quota lock and every variable
\* has its type.
LEMMA InitTypeLock == Init => TypeOK /\ LockDiscipline
<1> SUFFICES ASSUME Init PROVE TypeOK /\ LockDiscipline
  OBVIOUS
<1> USE ConstantsType
<1>1. team \in [Teams -> TeamObject]
  <2>1. \A q \in Quota : [st |-> "new", quota |-> q, ready |-> FALSE] \in TeamObject
    BY DEF TeamObject, ObjectState
  <2> QED BY <2>1 DEF Init
<1>2. ws \in [Workspaces -> WsObject]
  BY DEF Init, WsObject, ObjectState
<1>3. edits \in 0..EditBudget /\ faults \in 0..FaultBudget
  BY ConstantsAssumption DEF Init
<1>4. TypeOK
  BY <1>1, <1>2, <1>3 DEF TypeOK, Init
<1>5. LockDiscipline
  BY DEF Init, LockDiscipline, TeamIdle, WsIdle
<1> QED BY <1>4, <1>5

\* TypeOK: among others, no Cohort is ever given a negative quota.
THEOREM TypeCorrect == Spec => []TypeOK
<1>1. Init => TypeOK /\ LockDiscipline
  BY InitTypeLock
<1>2. TypeOK /\ LockDiscipline /\ [Next]_vars => (TypeOK /\ LockDiscipline)'
  BY NextType, NextLock
<1> QED BY <1>1, <1>2, PTL DEF Spec

-----------------------------------------------------------------------------
(* Reservations *)

\* validateClusterQueueQuotaReduction, with Kueue reserving at the same time:
\* a ClusterQueue is never smaller than its reservations.
THEOREM ReservationsSafe == Spec => []ReservationWithinMaximum
<1> DEFINE Inv == TypeOK /\ LockDiscipline /\ ReservationWithinMaximum
<1>1. Init => Inv
  <2>1. Init => ReservationWithinMaximum
    BY DEF Init, ReservationWithinMaximum, NoQueue, Maximum
  <2> QED BY <2>1, InitTypeLock
<1>2. ASSUME Inv, [Next]_vars PROVE ReservationWithinMaximum'
  <2> SUFFICES ASSUME NEW v \in Workspaces PROVE (cq[v].resv <= Maximum(cq[v]))'
    BY DEF ReservationWithinMaximum
  <2>1. cq[v] \in QueueObject /\ cq[v].resv <= Maximum(cq[v])
    BY <1>2 DEF TypeOK, ReservationWithinMaximum
  <2>2. CASE cq' = cq
    BY <2>1, <2>2 DEF Maximum
  <2>3. CASE WsWriteQueue
    <3> DEFINE desired == DesiredQueue(ww.ws, ww.spec)
    <3>1. \/ cq' = cq
          \/ cq' = [cq EXCEPT ![ww.ws] = desired] /\ QueueUpdateAllowed(ww.ws, desired)
      BY <2>3 DEF WsWriteQueue
    <3>2. ww.ws \in Workspaces
      BY <1>2, <2>3 DEF LockDiscipline, WsWriteQueue
    <3>3. CASE cq' = [cq EXCEPT ![ww.ws] = desired] /\ QueueUpdateAllowed(ww.ws, desired) /\ v = ww.ws
      <4>1. cq'[v] = desired /\ desired.resv = cq[v].resv
        BY <1>2, <3>2, <3>3 DEF TypeOK, DesiredQueue
      <4>2. desired = cq[v] \/ cq[v].resv <= Maximum(desired)
        BY <3>3 DEF QueueUpdateAllowed
      <4> HIDE DEF desired
      <4> QED BY <2>1, <4>1, <4>2 DEF Maximum
    <3>4. CASE cq' = [cq EXCEPT ![ww.ws] = desired] /\ v # ww.ws
      BY <2>1, <3>4 DEF TypeOK, Maximum
    <3> QED BY <2>2, <3>1, <3>3, <3>4
  <2>4. CASE WsDeleteQueue
    BY <1>2, <2>1, <2>4 DEF TypeOK, WsDeleteQueue, NoQueue, Maximum, QueueObject
  <2>5. ASSUME NEW w \in Workspaces, Reserve(w) PROVE (cq[v].resv <= Maximum(cq[v]))'
    BY <1>2, <2>1, <2>5 DEF TypeOK, Reserve, Maximum, QueueObject
  <2>6. ASSUME NEW w \in Workspaces, Release(w) PROVE (cq[v].resv <= Maximum(cq[v]))'
    BY <1>2, <2>1, <2>6, ConstantsAssumption
       DEF TypeOK, Release, Maximum, QueueObject, NoQueue, Quota
  <2>7. \/ cq' = cq \/ WsWriteQueue \/ WsDeleteQueue
        \/ \E w \in Workspaces : Reserve(w) \/ Release(w)
    BY <1>2, UserStepFrame DEF Next, TeamStep, WsStep, TeamValidate, TeamCheckCohort, TeamWriteCohort,
       TeamReportReady, TeamFinalize, TeamDeleteCohort, TeamRemoveFinalizer, TeamAbort,
       TeamAddFinalizer, TeamLock, WsGetTeam, WsValidate, WsCheckCohort, WsWriteCohortBefore,
       WsRecheckCohort, WsWriteCohortAfter, WsRemoveFinalizer, WsLock, WsAbort,
       WsAddFinalizer, WsRead, WsCleanupLock, store, vars
  <2> QED BY <2>2, <2>3, <2>4, <2>5, <2>6, <2>7
<1>3. Inv /\ [Next]_vars => Inv'
  BY <1>2, NextType, NextLock
<1>4. Inv => ReservationWithinMaximum
  OBVIOUS
<1> HIDE DEF Inv
<1> QED BY <1>1, <1>3, <1>4, PTL DEF Spec

-----------------------------------------------------------------------------
(* Membership *)

\* A status update keeps every team's finalizer, and reports Ready only for
\* an object that has not changed since it was read.
LEMMA ReportFrame ==
    ASSUME TypeOK, NEW b \in BOOLEAN, tw.team \in Teams, ReportTeamStatus(b)
    PROVE  /\ \A t \in Teams : team'[t].st = team[t].st
           /\ \A t \in Teams : team'[t].ready => team[t].ready \/ (b /\ tw.fresh /\ t = tw.team)
           /\ tw' = TeamIdle
BY DEF TypeOK, ReportTeamStatus, TeamDone, TeamObject

\* finalizeTeam and the quota path of the TauTeam reconciler keep the
\* hierarchy connected.
LEMMA TeamMembership ==
    ASSUME TypeOK, MembershipInv, TeamStep
    PROVE  (TeamKnowledge /\ WsKnowledge /\ MembershipIntact)'
<1> USE DEF TypeOK, MembershipInv, LockDiscipline, TeamKnowledge, WsKnowledge, MembershipIntact,
            InCohort, Finalized
<1>1. ASSUME tw.pc # "idle", ReportTeamStatus(FALSE),
             UNCHANGED <<ws, cohort, cq, ww, granted, edits, faults>>
      PROVE  (TeamKnowledge /\ WsKnowledge /\ MembershipIntact)'
  <2>1. tw.team \in Teams
    BY <1>1
  <2>2. /\ \A t \in Teams : team'[t].st = team[t].st
        /\ \A t \in Teams : team'[t].ready => team[t].ready
        /\ tw' = TeamIdle
    BY <1>1, <2>1, ReportFrame
  <2> QED BY <1>1, <2>2 DEF TeamIdle
<1>2. ASSUME TeamValidate PROVE (TeamKnowledge /\ WsKnowledge /\ MembershipIntact)'
  <2>1. CASE ReportTeamStatus(FALSE)
    BY <1>1, <1>2, <2>1 DEF TeamValidate
  <2>2. CASE ~ReportTeamStatus(FALSE)
    <3> DEFINE n == SharedTeamQuota(tw.team, tw.quota, ws)
    <3>1. tw' = [tw EXCEPT !.pc = "check", !.shared = n] /\ UNCHANGED team
      BY ONLY <1>2, <2>2 DEF TeamValidate
    <3>2. tw.pc = "validate" /\ UNCHANGED <<ws, cohort, cq, ww>>
      BY ONLY <1>2 DEF TeamValidate
    <3> HIDE DEF n
    <3> QED BY <3>1, <3>2 DEF TeamWorker
  <2> QED BY <2>1, <2>2
<1>3. ASSUME TeamCheckCohort PROVE (TeamKnowledge /\ WsKnowledge /\ MembershipIntact)'
  <2>1. CASE ReportTeamStatus(FALSE)
    BY <1>1, <1>3, <2>1 DEF TeamCheckCohort
  <2>2. CASE tw' = [tw EXCEPT !.pc = "write"] /\ UNCHANGED <<team, lock>>
    BY <1>3, <2>2 DEF TeamCheckCohort, TeamWorker
  <2> QED BY <1>3, <2>1, <2>2 DEF TeamCheckCohort
<1>4. ASSUME TeamFinalize PROVE (TeamKnowledge /\ WsKnowledge /\ MembershipIntact)'
  <2>1. CASE ReportTeamStatus(FALSE)
    BY <1>1, <1>4, <2>1 DEF TeamFinalize
  <2>2. CASE ~TeamInUse(tw.team) /\ tw' = [tw EXCEPT !.pc = "deleteCohort"] /\ UNCHANGED <<team, lock>>
    BY <1>4, <2>2 DEF TeamFinalize, TeamInUse, TeamWorker
  <2> QED BY <1>4, <2>1, <2>2 DEF TeamFinalize
<1>5. ASSUME TeamWriteCohort PROVE (TeamKnowledge /\ WsKnowledge /\ MembershipIntact)'
  BY <1>5 DEF TeamWriteCohort, WriteCohort, TeamWorker, CohortObject
<1>6. ASSUME TeamReportReady PROVE (TeamKnowledge /\ WsKnowledge /\ MembershipIntact)'
  BY <1>6 DEF TeamReportReady, ReportTeamStatus, TeamDone, TeamIdle
<1>7. ASSUME TeamDeleteCohort PROVE (TeamKnowledge /\ WsKnowledge /\ MembershipIntact)'
  BY <1>7 DEF TeamDeleteCohort, TeamWorker
<1>8. ASSUME TeamRemoveFinalizer PROVE (TeamKnowledge /\ WsKnowledge /\ MembershipIntact)'
  BY <1>8 DEF TeamRemoveFinalizer, TeamDone, TeamIdle, NoTeamObject
<1> QED
  <2> HIDE DEF TypeOK, MembershipInv, LockDiscipline, TeamKnowledge, WsKnowledge, MembershipIntact,
            InCohort, Finalized
  <2> QED BY <1>2, <1>3, <1>4, <1>5, <1>6, <1>7, <1>8 DEF TeamStep

\* So do the quota path and the cleanup of the TauWorkspace reconciler.
LEMMA WsMembership ==
    ASSUME TypeOK, MembershipInv, WsStep
    PROVE  (TeamKnowledge /\ WsKnowledge /\ MembershipIntact)'
<1> USE DEF TypeOK, MembershipInv, LockDiscipline, TeamKnowledge, WsKnowledge, MembershipIntact,
            InCohort, Finalized
<1>0. ASSUME WsDone, UNCHANGED <<team, ws, cohort, cq, tw>>
      PROVE  (TeamKnowledge /\ WsKnowledge /\ MembershipIntact)'
  BY <1>0 DEF WsDone, WsIdle
<1>1. ASSUME WsGetTeam PROVE (TeamKnowledge /\ WsKnowledge /\ MembershipIntact)'
  <2> DEFINE t == team[ww.spec.team]
  <2>1. CASE WsDone
    BY <1>0, <1>1, <2>1 DEF WsGetTeam, store
  <2>2. CASE /\ ww' = [ww EXCEPT !.pc = "validate", !.tquota = t.quota,
                           !.tready = t.ready, !.tdeleting = (t.st = "deleting")]
             /\ UNCHANGED lock
    <3>1. UNCHANGED <<team, ws, cohort, cq, tw>> /\ ww.pc = "team"
      BY <1>1 DEF WsGetTeam, store
    <3>2. /\ ww'.pc = "validate" /\ ww'.ws = ww.ws /\ ww'.spec = ww.spec
          /\ ww'.tready = team[ww.spec.team].ready
      BY <2>2 DEF WsWorker
    <3>3. ww'.tready => team[ww.spec.team].st \in Finalized
      BY <3>1, <3>2
    <3> QED BY <3>1, <3>2, <3>3
  <2> QED BY <1>1, <2>1, <2>2 DEF WsGetTeam
<1>2. ASSUME WsValidate PROVE (TeamKnowledge /\ WsKnowledge /\ MembershipIntact)'
  <2>1. UNCHANGED <<team, ws, cohort, cq, tw>> /\ ww.pc = "validate"
    BY <1>2 DEF WsValidate, store
  <2>2. CASE WsDone
    BY <1>0, <2>1, <2>2
  <2>3. CASE ~WsDone
    <3>1. ww.tready \/ QueueReductionOnly(ww.ws, ww.spec)
      BY <1>2, <2>3 DEF WsValidate, WsAdmitted
    <3>2. ww.tready \/ InCohort(ww.ws, ww.spec.team)
      BY <3>1 DEF QueueReductionOnly
    <3> DEFINE n == SharedTeamQuota(ww.spec.team, ww.tquota, Proposed)
    <3>a. \/ ww' = [ww EXCEPT !.pc = "queue"] /\ QueueReductionOnly(ww.ws, ww.spec)
          \/ ww' = [ww EXCEPT !.pc = "check", !.shared = n]
      BY ONLY <1>2, <2>3 DEF WsValidate
    <3>b. ww \in WsWorker
      OBVIOUS
    <3> HIDE DEF n
    <3>3. /\ ww'.pc \in {"check", "queue"} /\ ww'.ws = ww.ws /\ ww'.spec = ww.spec
          /\ ww'.tready = ww.tready
      BY ONLY <3>a, <3>b DEF WsWorker
    <3>4. ww'.pc = "queue" => InCohort(ww.ws, ww.spec.team)
      BY ONLY <3>a, <3>b DEF QueueReductionOnly, WsWorker
    <3> QED BY <2>1, <3>2, <3>3, <3>4
  <2> QED BY <2>2, <2>3
<1>3. ASSUME WsCheckCohort PROVE (TeamKnowledge /\ WsKnowledge /\ MembershipIntact)'
  BY <1>3 DEF WsCheckCohort, WsDone, WsIdle, WsWorker, store
<1>4. ASSUME WsWriteCohortBefore PROVE (TeamKnowledge /\ WsKnowledge /\ MembershipIntact)'
  BY <1>4 DEF WsWriteCohortBefore, WriteCohort, WsWorker
<1>5. ASSUME WsWriteQueue PROVE (TeamKnowledge /\ WsKnowledge /\ MembershipIntact)'
  BY <1>5 DEF WsWriteQueue, DesiredQueue, WsDone, WsIdle, WsWorker
<1>6. ASSUME WsRecheckCohort PROVE (TeamKnowledge /\ WsKnowledge /\ MembershipIntact)'
  <2>1. UNCHANGED <<team, ws, cohort, cq, tw>> /\ ww.pc = "recheck"
    BY <1>6 DEF WsRecheckCohort, store
  <2>2. CASE WsDone
    BY <1>0, <2>1, <2>2
  <2>3. CASE ~WsDone
    <3> DEFINE n == SharedTeamQuota(ww.spec.team, ww.tquota, Proposed)
    <3>a. ww' = [ww EXCEPT !.pc = "cohortAfter", !.shared = n]
      BY ONLY <1>6, <2>3 DEF WsRecheckCohort
    <3> HIDE DEF n
    <3>1. ww'.pc = "cohortAfter" /\ ww'.ws = ww.ws
      BY <3>a DEF WsWorker
    <3> QED BY <2>1, <3>1
  <2> QED BY <2>2, <2>3
<1>7. ASSUME WsWriteCohortAfter PROVE (TeamKnowledge /\ WsKnowledge /\ MembershipIntact)'
  BY <1>7 DEF WsWriteCohortAfter, WriteCohort, WsDone, WsIdle
<1>8. ASSUME WsDeleteQueue PROVE (TeamKnowledge /\ WsKnowledge /\ MembershipIntact)'
  <2>1. UNCHANGED <<team, ws, cohort, tw>> /\ ww.pc = "deleteQueue" /\ ww.ws \in Workspaces
    BY <1>8 DEF WsDeleteQueue
  <2>2. ws[ww.ws].st = "deleting"
    BY <2>1
  <2>3. CASE cq[ww.ws].resv = 0
    <3>1. cq' = [cq EXCEPT ![ww.ws] = NoQueue]
      BY <1>8, <2>3 DEF WsDeleteQueue
    <3>2. ww'.pc = "removeFinalizer" /\ ww'.ws = ww.ws
      BY <1>8, <2>3 DEF WsDeleteQueue, WsWorker
    <3>3. \A v \in Workspaces : cq'[v] = IF v = ww.ws THEN NoQueue ELSE cq[v]
      BY <2>1, <3>1
    <3>4. ~NoQueue.up /\ ~NoQueue.term
      BY DEF NoQueue
    <3> QED BY <2>1, <2>2, <3>2, <3>3, <3>4
  <2>4. CASE cq[ww.ws].resv # 0
    <3>1. cq' = [cq EXCEPT ![ww.ws].term = TRUE] /\ ww' = WsIdle
      BY <1>8, <2>4 DEF WsDeleteQueue, WsDone
    <3>2. cq[ww.ws].up
      BY <2>1, <2>4 DEF NoQueue
    <3>3. \A v \in Workspaces : /\ cq'[v].up = cq[v].up /\ cq'[v].cohort = cq[v].cohort
                                /\ v # ww.ws => cq'[v] = cq[v]
      BY <2>1, <3>1 DEF QueueObject
    <3> QED BY <2>1, <2>2, <3>1, <3>2, <3>3 DEF WsIdle
  <2> QED BY <2>3, <2>4
<1>9. ASSUME WsRemoveFinalizer PROVE (TeamKnowledge /\ WsKnowledge /\ MembershipIntact)'
  <2>1. UNCHANGED <<team, cohort, cq, tw>> /\ ww' = WsIdle /\ ww.ws \in Workspaces /\ ~cq[ww.ws].up
    BY <1>9 DEF WsRemoveFinalizer, WsDone
  <2>2. \A v \in Workspaces : v # ww.ws => ws'[v] = ws[v]
    BY <1>9 DEF WsRemoveFinalizer
  <2>3. ~cq[ww.ws].term
    BY <2>1 DEF NoQueue
  <2> QED BY <2>1, <2>2, <2>3 DEF WsIdle
<1> QED
  <2> HIDE DEF TypeOK, MembershipInv, LockDiscipline, TeamKnowledge, WsKnowledge, MembershipIntact,
            InCohort, Finalized
  <2> QED BY <1>1, <1>2, <1>3, <1>4, <1>5, <1>6, <1>7, <1>8, <1>9 DEF WsStep

\* Whatever users do to a team, it is not Ready for the new generation, and
\* they cannot remove a finalized one.
LEMMA TeamChangeShape ==
    ASSUME TypeOK, NEW t \in Teams,
           DeleteTeam(t) \/ \E q \in Quota : CreateTeam(t, q) \/ EditTeam(t, q)
    PROVE  \E o : /\ TeamChange(t, o) /\ ~o.ready
                  /\ team[t].st \in {"live", "deleting"} => o.st \in {"live", "deleting"}
<1>1. team[t] \in [st : ObjectState, quota : Quota, ready : BOOLEAN]
  BY DEF TypeOK, TeamObject
<1>2. CASE DeleteTeam(t)
  <2> DEFINE o == IF team[t].st = "new" THEN NoTeamObject
                  ELSE [team[t] EXCEPT !.st = "deleting", !.ready = FALSE]
  <2>1. TeamChange(t, o)
    BY <1>2 DEF DeleteTeam
  <2>2. ~o.ready /\ (team[t].st \in {"live", "deleting"} => o.st \in {"live", "deleting"})
    BY <1>1 DEF NoTeamObject
  <2> HIDE DEF o
  <2> QED BY <2>1, <2>2
<1>3. ASSUME NEW q \in Quota, CreateTeam(t, q) \/ EditTeam(t, q)
      PROVE  \E o : /\ TeamChange(t, o) /\ ~o.ready
                    /\ team[t].st \in {"live", "deleting"} => o.st \in {"live", "deleting"}
  <2> DEFINE o == IF CreateTeam(t, q) THEN [st |-> "new", quota |-> q, ready |-> FALSE]
                  ELSE [team[t] EXCEPT !.quota = q, !.ready = FALSE]
  <2>1. TeamChange(t, o)
    BY <1>3 DEF CreateTeam, EditTeam
  <2>2. ~o.ready /\ (team[t].st \in {"live", "deleting"} => o.st \in {"live", "deleting"})
    BY <1>1, <1>3 DEF CreateTeam, EditTeam
  <2> HIDE DEF o
  <2> QED BY <2>1, <2>2
<1> QED BY <1>2, <1>3

\* Users write TauWorkspace specs and ask for deletion; they cannot remove a
\* workspace that carries the cleanup finalizer.
LEMMA WsChangeShape ==
    ASSUME TypeOK, NEW w \in Workspaces,
           \/ DeleteWs(w)
           \/ \E t \in Teams \cup {NoTeam}, q \in Quota, b \in 0..MaxBorrow :
                 CreateWs(w, t, q, b) \/ EditWs(w, t, q, b)
    PROVE  \E o : /\ WsChange(w, o)
                  /\ ws[w].st \in {"live", "deleting"} => o.st \in {"live", "deleting"}
                  /\ ws[w].st = "deleting" => o.st = "deleting"
<1>1. ws[w] \in [st : ObjectState, team : Teams \cup {NoTeam}, quota : Quota, borrow : 0..MaxBorrow]
  BY DEF TypeOK, WsObject
<1>2. CASE DeleteWs(w)
  <2> DEFINE o == IF ws[w].st = "new" THEN NoWsObject ELSE [ws[w] EXCEPT !.st = "deleting"]
  <2>1. WsChange(w, o)
    BY <1>2 DEF DeleteWs
  <2>2. /\ ws[w].st \in {"live", "deleting"} => o.st \in {"live", "deleting"}
        /\ ws[w].st = "deleting" => o.st = "deleting"
    BY <1>1 DEF NoWsObject
  <2> HIDE DEF o
  <2> QED BY <2>1, <2>2
<1>3. ASSUME NEW t \in Teams \cup {NoTeam}, NEW q \in Quota, NEW b \in 0..MaxBorrow,
             CreateWs(w, t, q, b) \/ EditWs(w, t, q, b)
      PROVE  \E o : /\ WsChange(w, o)
                    /\ ws[w].st \in {"live", "deleting"} => o.st \in {"live", "deleting"}
                    /\ ws[w].st = "deleting" => o.st = "deleting"
  <2> DEFINE o == IF CreateWs(w, t, q, b)
                  THEN [st |-> "new", team |-> t, quota |-> q, borrow |-> b]
                  ELSE [ws[w] EXCEPT !.team = t, !.quota = q, !.borrow = b]
  <2>1. WsChange(w, o)
    BY <1>3 DEF CreateWs, EditWs
  <2>2. /\ ws[w].st \in {"live", "deleting"} => o.st \in {"live", "deleting"}
        /\ ws[w].st = "deleting" => o.st = "deleting"
    BY <1>1, <1>3 DEF CreateWs, EditWs
  <2> HIDE DEF o
  <2> QED BY <2>1, <2>2
<1> QED BY <1>2, <1>3

\* Failures, lock acquisitions, Kueue and users keep it connected too.
LEMMA NextMembership ==
    ASSUME TypeOK, MembershipInv, [Next]_vars
    PROVE  (TeamKnowledge /\ WsKnowledge /\ MembershipIntact)'
<1> USE DEF TypeOK, MembershipInv, LockDiscipline, TeamKnowledge, WsKnowledge, MembershipIntact,
            InCohort, Finalized
<1>1. CASE TeamAbort
  BY <1>1 DEF TeamAbort, TeamDone, TeamIdle, store
<1>2. ASSUME NEW t \in Teams, TeamAddFinalizer(t)
      PROVE  (TeamKnowledge /\ WsKnowledge /\ MembershipIntact)'
  BY <1>2 DEF TeamAddFinalizer
<1>3. ASSUME NEW t \in Teams, TeamLock(t)
      PROVE  (TeamKnowledge /\ WsKnowledge /\ MembershipIntact)'
  BY <1>3 DEF TeamLock, store
<1>4. CASE WsLock
  BY <1>4 DEF WsLock, WsUnchanged, WsDone, WsIdle, WsWorker, store
<1>5. CASE WsAbort
  BY <1>5 DEF WsAbort, WsIdle, store
<1>6. ASSUME NEW w \in Workspaces, WsAddFinalizer(w)
      PROVE  (TeamKnowledge /\ WsKnowledge /\ MembershipIntact)'
  BY <1>6 DEF WsAddFinalizer
<1>7. ASSUME NEW w \in Workspaces, WsRead(w)
      PROVE  (TeamKnowledge /\ WsKnowledge /\ MembershipIntact)'
  BY <1>7 DEF WsRead, WsIdle, store
<1>8. ASSUME NEW w \in Workspaces, WsCleanupLock(w)
      PROVE  (TeamKnowledge /\ WsKnowledge /\ MembershipIntact)'
  BY <1>8 DEF WsCleanupLock, WsIdle, store
<1>9. ASSUME NEW w \in Workspaces, Reserve(w)
      PROVE  (TeamKnowledge /\ WsKnowledge /\ MembershipIntact)'
  BY <1>9 DEF Reserve, QueueObject
<1>10. ASSUME NEW w \in Workspaces, Release(w)
       PROVE  (TeamKnowledge /\ WsKnowledge /\ MembershipIntact)'
  <2>1. UNCHANGED <<team, ws, cohort, tw, ww>> /\ cq[w] \in QueueObject /\ cq[w].up
    BY <1>10 DEF Release, NoQueue
  <2>2. CASE cq' = [cq EXCEPT ![w] = NoQueue] /\ cq[w].term
    <3>1. \A v \in Workspaces : cq'[v] = IF v = w THEN NoQueue ELSE cq[v]
      BY <2>2
    <3>2. ~NoQueue.up /\ ~NoQueue.term
      BY DEF NoQueue
    <3> QED BY <2>1, <2>2, <3>1, <3>2
  <2>3. CASE cq' = [cq EXCEPT ![w] = [cq[w] EXCEPT !.resv = cq[w].resv - 1]]
    <3>1. \A v \in Workspaces : /\ cq'[v].up = cq[v].up /\ cq'[v].cohort = cq[v].cohort
                                /\ cq'[v].term = cq[v].term /\ (v # w => cq'[v] = cq[v])
      BY <2>1, <2>3 DEF QueueObject
    <3> QED BY <2>1, <3>1
  <2> QED BY ONLY <1>10, <2>2, <2>3 DEF Release
<1>11. CASE UserStep
  <2>1. ASSUME NEW t \in Teams, DeleteTeam(t) \/ \E q \in Quota : CreateTeam(t, q) \/ EditTeam(t, q)
        PROVE  (TeamKnowledge /\ WsKnowledge /\ MembershipIntact)'
    <3>1. PICK o : /\ TeamChange(t, o) /\ ~o.ready
                   /\ team[t].st \in {"live", "deleting"} => o.st \in {"live", "deleting"}
      BY <2>1, TeamChangeShape
    <3>2. UNCHANGED <<ws, cohort, cq, ww>> /\ team' = [team EXCEPT ![t] = o]
      BY ONLY <3>1 DEF TeamChange, Edit
    <3>3. \A u \in Teams : team'[u] = IF u = t THEN o ELSE team[u]
      BY <3>2
    <3>4. tw'.pc = tw.pc /\ tw'.team = tw.team
      BY <3>1 DEF TeamChange, TeamWorker
    <3>5. IF tw.team = t THEN ~tw'.fresh ELSE tw' = tw
      BY <3>1 DEF TeamChange, TeamWorker
    <3> QED BY <3>1, <3>2, <3>3, <3>4, <3>5
  <2>2. ASSUME NEW w \in Workspaces,
               \/ DeleteWs(w)
               \/ \E t \in Teams \cup {NoTeam}, q \in Quota, b \in 0..MaxBorrow :
                     CreateWs(w, t, q, b) \/ EditWs(w, t, q, b)
        PROVE  (TeamKnowledge /\ WsKnowledge /\ MembershipIntact)'
    <3>1. PICK o : /\ WsChange(w, o)
                   /\ ws[w].st \in {"live", "deleting"} => o.st \in {"live", "deleting"}
                   /\ ws[w].st = "deleting" => o.st = "deleting"
      BY <2>2, WsChangeShape
    <3>2. UNCHANGED <<team, cohort, cq, tw, ww>> /\ ws' = [ws EXCEPT ![w] = o]
      BY ONLY <3>1 DEF WsChange, Edit
    <3>3. \A v \in Workspaces : ws'[v] = IF v = w THEN o ELSE ws[v]
      BY <3>2
    <3> QED BY <3>1, <3>2, <3>3
  <2> QED BY ONLY <1>11, <2>1, <2>2 DEF UserStep
<1>12. CASE UNCHANGED vars
  BY <1>12 DEF vars
<1> QED
  <2> HIDE DEF TypeOK, MembershipInv, LockDiscipline, TeamKnowledge, WsKnowledge, MembershipIntact,
            InCohort, Finalized
  <2> QED BY <1>1, <1>2, <1>3, <1>4, <1>5, <1>6, <1>7, <1>8, <1>9, <1>10, <1>11, <1>12,
             TeamMembership, WsMembership DEF Next

\* With no Kueue object there is nothing to be disconnected.
LEMMA InitMembership == Init => MembershipInv
BY InitTypeLock DEF Init, MembershipInv, TeamKnowledge, WsKnowledge, MembershipIntact,
   TeamIdle, WsIdle, NoQueue

\* No ClusterQueue is orphaned: its workspace, its team and its Cohort outlive
\* it, in every interleaving of finalizeTeam, workspace cleanup and migration.
THEOREM MembershipSafe == Spec => []MembershipIntact
<1>1. Init => TypeOK /\ MembershipInv
  BY InitTypeLock, InitMembership
<1>2. TypeOK /\ MembershipInv /\ [Next]_vars => (TypeOK /\ MembershipInv)'
  BY NextType, NextLock, NextMembership DEF MembershipInv
<1>3. MembershipInv => MembershipIntact
  BY DEF MembershipInv
<1> QED BY <1>1, <1>2, <1>3, PTL DEF Spec

-----------------------------------------------------------------------------
(* The team budget *)

\* Nothing to add up.
LEMMA SumZero ==
    ASSUME NEW S, NEW f \in [S -> Nat], \A x \in S : f[x] = 0
    PROVE  SumOver(f) = 0
<1>1. Units(f) = {}
  BY DEF Units
<1> QED BY <1>1, FS_EmptySet DEF SumOver

\* What appliedWorkspaceQueue reports of a queue is a quota.
LEMMA HeldType ==
    ASSUME TypeOK
    PROVE  /\ \A t, w : w \in Workspaces => Held(w, t) \in Nat
           /\ \A t : HeldBy(t) \in [Workspaces -> Nat] /\ SumOver(HeldBy(t)) \in Nat
           /\ HeldNext \in [Workspaces -> Nat] /\ SumOver(HeldNext) \in Nat
<1>1. \A t, w : w \in Workspaces => Held(w, t) \in Nat
  BY ConstantsAssumption DEF TypeOK, Held, InCohort, QueueObject, Quota
<1>2. ww.spec.quota \in Nat
  BY ConstantsAssumption DEF TypeOK, WsWorker, WsObject, Quota
<1>3. \A t : HeldBy(t) \in [Workspaces -> Nat]
  BY <1>1 DEF HeldBy
<1>4. HeldNext \in [Workspaces -> Nat]
  BY <1>1, <1>2 DEF HeldNext, Larger
<1> QED BY <1>1, <1>3, <1>4, SumNat, ConstantsAssumption

\* What the Cohort hands out leaves room for every guarantee that still
\* stands, and for the one the workspace asks for (subtractWorkspaceGuarantee
\* charges the larger of the two).
LEMMA GuaranteesCover ==
    ASSUME TypeOK, NEW t, NEW view \in [Workspaces -> WsObject]
    PROVE  /\ SumOver(HeldBy(t)) <= Guarantees(t, view)
           /\ Guarantees(t, view) \in Nat
           /\ view = Proposed /\ t = ww.spec.team /\ ww.spec.st = "live"
                 => SumOver(HeldNext) <= Guarantees(t, view)
<1> DEFINE f == [w \in Workspaces |-> Effective(t, w, view)]
<1>1. f \in [Workspaces -> Nat] /\ \A w \in Workspaces : HeldBy(t)[w] <= f[w]
  BY HeldType, ConstantsAssumption DEF TypeOK, Effective, Larger, HeldBy, WsObject, Quota
<1>2. ASSUME view = Proposed, t = ww.spec.team, ww.spec.st = "live"
      PROVE  \A w \in Workspaces : HeldNext[w] <= f[w]
  <2>1. ASSUME NEW w \in Workspaces, w = ww.ws PROVE HeldNext[w] <= f[w]
    <3>1. view[w] = ww.spec
      BY <1>2, <2>1 DEF Proposed, TypeOK
    <3>2. f[w] = Larger(ww.spec.quota, Held(w, t)) /\ f[w] = HeldNext[w]
      BY <1>2, <2>1, <3>1 DEF Effective, HeldNext
    <3> QED BY <1>1, <3>2
  <2>2. ASSUME NEW w \in Workspaces, w # ww.ws PROVE HeldNext[w] <= f[w]
    <3>1. HeldNext[w] = HeldBy(t)[w]
      BY <1>2, <2>2 DEF HeldNext, HeldBy
    <3> QED BY <1>1, <3>1
  <2> QED BY <2>1, <2>2
<1> HIDE DEF f
<1>3. SumOver(HeldBy(t)) <= SumOver(f) /\ SumOver(f) \in Nat
  BY <1>1, HeldType, SumMonotone, SumNat, ConstantsAssumption
<1>4. ASSUME view = Proposed, t = ww.spec.team, ww.spec.st = "live"
      PROVE  SumOver(HeldNext) <= SumOver(f)
  BY <1>1, <1>2, <1>4, HeldType, SumMonotone, ConstantsAssumption
<1> QED BY <1>3, <1>4 DEF Guarantees, f

\* Queues that give quota back leave the budgets intact.
LEMMA SumShrinks ==
    ASSUME TypeOK, TypeOK', NEW t, \A w \in Workspaces : Held(w, t)' <= Held(w, t)
    PROVE  SumOver(HeldBy(t))' <= SumOver(HeldBy(t))
<1> DEFINE f == HeldBy(t)'  g == HeldBy(t)
<1>1. f = [w \in Workspaces |-> Held(w, t)']
  BY DEF HeldBy
<1>2. f \in [Workspaces -> Nat]
  BY <1>1, HeldType, ConstantsAssumption DEF TypeOK, Held, InCohort, QueueObject, Quota
<1>3. g \in [Workspaces -> Nat]
  BY HeldType
<1>4. \A w \in Workspaces : f[w] <= g[w]
  BY <1>1 DEF HeldBy
<1>5. SumOver(HeldBy(t))' = SumOver(f)
  BY DEF SumOver, Units
<1> HIDE DEF f, g
<1>6. SumOver(f) <= SumOver(g)
  BY <1>2, <1>3, <1>4, SumMonotone, ConstantsAssumption
<1> QED BY <1>5, <1>6 DEF g

\* The same for what the queues will hold after the workspace's own write.
LEMMA NextShrinks ==
    ASSUME TypeOK, TypeOK', ww'.ws = ww.ws, ww'.spec = ww.spec,
           \A w \in Workspaces : Held(w, ww.spec.team)' <= Held(w, ww.spec.team)
    PROVE  SumOver(HeldNext)' <= SumOver(HeldNext)
<1> DEFINE f == HeldNext'  g == HeldNext  t == ww.spec.team
<1>1. f = [w \in Workspaces |-> IF w = ww.ws THEN Larger(ww.spec.quota, Held(w, t)') ELSE Held(w, t)']
  BY DEF HeldNext, Larger, Held, InCohort
<1>2. \A w \in Workspaces : Held(w, t) \in Nat /\ Held(w, t)' \in Nat
  BY HeldType, ConstantsAssumption DEF TypeOK, Held, InCohort, QueueObject, Quota
<1>3. ww.spec.quota \in Nat
  BY ConstantsAssumption DEF TypeOK, WsWorker, WsObject, Quota
<1>4. f \in [Workspaces -> Nat]
  BY <1>1, <1>2, <1>3 DEF Larger
<1>5. g \in [Workspaces -> Nat]
  BY HeldType
<1>6. \A w \in Workspaces : f[w] <= g[w]
  BY <1>1, <1>2, <1>3 DEF HeldNext, Larger
<1>7. SumOver(HeldNext)' = SumOver(f)
  BY DEF SumOver, Units
<1> HIDE DEF f, g
<1>8. SumOver(f) <= SumOver(g)
  BY <1>4, <1>5, <1>6, SumMonotone, ConstantsAssumption
<1> QED BY <1>7, <1>8 DEF g

\* The totals that sharedTeamQuota and appliedTeamAllocation work with are
\* natural numbers ...
LEMMA HeldSums == TypeOK => /\ \A t : SumOver(HeldBy(t)) \in Nat
                            /\ SumOver(HeldNext) \in Nat
BY HeldType

\* ... in the next state as well.
LEMMA HeldSumsNext == TypeOK' => (/\ \A t : SumOver(HeldBy(t)) \in Nat
                                  /\ SumOver(HeldNext) \in Nat)'
BY HeldSums, PTL

\* The sums after a step are natural numbers too.
LEMMA SumsNat ==
    ASSUME TypeOK, TypeOK'
    PROVE  /\ \A t : SumOver(HeldBy(t)) \in Nat /\ SumOver(HeldBy(t))' \in Nat
           /\ SumOver(HeldNext) \in Nat /\ SumOver(HeldNext)' \in Nat
           /\ \A t \in Teams : cohort[t].nominal \in Nat /\ granted[t] \in Nat
           /\ tw.shared \in Nat /\ tw.quota \in Nat /\ ww.shared \in Nat /\ ww.tquota \in Nat
<1>1. /\ \A t : SumOver(HeldBy(t)) \in Nat
      /\ SumOver(HeldNext) \in Nat
  BY HeldType
<1>2. (/\ \A t : SumOver(HeldBy(t)) \in Nat
       /\ SumOver(HeldNext) \in Nat)'
  BY HeldSumsNext
<1>3. /\ \A t \in Teams : cohort[t].nominal \in Nat /\ granted[t] \in Nat
      /\ tw.shared \in Nat /\ tw.quota \in Nat /\ ww.shared \in Nat /\ ww.tquota \in Nat
  BY ConstantsAssumption DEF TypeOK, CohortObject, TeamWorker, WsWorker, Quota
<1> QED BY <1>1, <1>2, <1>3

\* A step that only lets queues give quota back keeps every budget.
LEMMA BudgetHeldFrame ==
    ASSUME TypeOK, TypeOK', BudgetHeld, UNCHANGED <<cohort, granted>>,
           \A t \in Teams : \A w \in Workspaces : Held(w, t)' <= Held(w, t)
    PROVE  BudgetHeld'
<1> SUFFICES ASSUME NEW t \in Teams PROVE cohort'[t].nominal + SumOver(HeldBy(t))' <= granted'[t]
  BY DEF BudgetHeld, AppliedTeamAllocation, HeldBy
<1>1. SumOver(HeldBy(t))' <= SumOver(HeldBy(t))
  BY SumShrinks
<1>2. cohort[t].nominal + SumOver(HeldBy(t)) <= granted[t]
  BY DEF BudgetHeld, AppliedTeamAllocation, HeldBy
<1> QED BY <1>1, <1>2, SumsNat

\* A TauTeam reconciler that has computed its shared quota keeps its budget while
\* others only give quota back.
LEMMA TeamBudgetFrame ==
    ASSUME TypeOK, TypeOK', TeamBudget,
           tw'.pc \in {"check", "write"} =>
              /\ tw.pc \in {"check", "write"}
              /\ tw'.team = tw.team /\ tw'.quota = tw.quota /\ tw'.shared = tw.shared
              /\ \A w \in Workspaces : Held(w, tw.team)' <= Held(w, tw.team)
    PROVE  TeamBudget'
<1> SUFFICES ASSUME tw'.pc \in {"check", "write"}
             PROVE  tw'.shared + SumOver(HeldBy(tw.team))' <= tw'.quota
  BY DEF TeamBudget
<1> DEFINE t == tw.team
<1>1. tw'.team = t /\ tw'.quota = tw.quota /\ tw'.shared = tw.shared
  OBVIOUS
<1>2. SumOver(HeldBy(tw.team))' <= SumOver(HeldBy(t))
  <2>1. SumOver(HeldBy(t))' <= SumOver(HeldBy(t))
    BY SumShrinks
  <2> QED BY <2>1, <1>1
<1>3. tw.shared + SumOver(HeldBy(t)) <= tw.quota
  BY DEF TeamBudget
<1>4. SumOver(HeldBy(tw.team))' \in Nat /\ SumOver(HeldBy(t)) \in Nat /\ tw.shared \in Nat /\ tw.quota \in Nat
  BY SumsNat
<1> QED BY <1>1, <1>2, <1>3, <1>4

\* So does a TauWorkspace reconciler between its Cohort and ClusterQueue writes.
LEMMA WsBudgetFrame ==
    ASSUME TypeOK, TypeOK', LockDiscipline, WsBudget, UNCHANGED <<cohort, granted>>,
           ww'.pc \in {"check", "cohortBefore", "queue", "cohortAfter"} =>
              /\ ww' = ww
              /\ \A w \in Workspaces : Held(w, ww.spec.team)' <= Held(w, ww.spec.team)
    PROVE  WsBudget'
<1> SUFFICES ASSUME ww'.pc \in {"check", "cohortBefore", "queue", "cohortAfter"}
             PROVE  WsBudget'
  BY DEF WsBudget
<1> DEFINE t == ww.spec.team
<1>1. ww' = ww /\ t \in Teams
  BY DEF LockDiscipline
<1>2. SumOver(HeldBy(ww.spec.team))' <= SumOver(HeldBy(t))
  <2>1. SumOver(HeldBy(t))' <= SumOver(HeldBy(t))
    BY SumShrinks
  <2> QED BY <2>1, <1>1
<1>3. SumOver(HeldNext)' <= SumOver(HeldNext)
  BY <1>1, NextShrinks
<1>4. /\ SumOver(HeldBy(ww.spec.team))' \in Nat /\ SumOver(HeldBy(t)) \in Nat
      /\ SumOver(HeldNext)' \in Nat /\ SumOver(HeldNext) \in Nat
      /\ ww.shared \in Nat /\ ww.tquota \in Nat /\ cohort[t].nominal \in Nat /\ granted[t] \in Nat
  BY <1>1, SumsNat
<1>5. CASE ww.pc \in {"check", "cohortBefore"}
  BY <1>1, <1>3, <1>4, <1>5 DEF WsBudget
<1>6. CASE ww.pc = "queue"
  BY <1>1, <1>3, <1>4, <1>6 DEF WsBudget
<1>7. CASE ww.pc = "cohortAfter"
  BY <1>1, <1>2, <1>4, <1>7 DEF WsBudget
<1> QED BY <1>1, <1>5, <1>6, <1>7

\* reconcileTeamCohort on behalf of the TauTeam reconciler.
LEMMA TeamStepBudget ==
    ASSUME TypeOK, TypeOK', MembershipInv, BudgetInv, TeamStep
    PROVE  BudgetInv'
<1> USE DEF BudgetInv
<1>0. cq' = cq /\ \A t : \A w \in Workspaces : Held(w, t)' <= Held(w, t)
  <2>1. cq' = cq
    BY DEF TeamStep, TeamValidate, TeamCheckCohort, TeamWriteCohort, TeamReportReady, TeamFinalize,
       TeamDeleteCohort, TeamRemoveFinalizer
  <2>2. \A t : \A w \in Workspaces : Held(w, t)' = Held(w, t) /\ Held(w, t) \in Nat
    BY <2>1, HeldType DEF Held, InCohort
  <2> QED BY <2>1, <2>2
<1>a. LockDiscipline /\ ww' = ww /\ tw.pc # "idle" /\ tw.team \in Teams /\ ww.pc \in {"idle", "wait"}
  BY TeamStepLock DEF MembershipInv, LockDiscipline
<1>b. WsBudget'
  BY <1>a DEF WsBudget
<1>c. ASSUME UNCHANGED <<cohort, granted>>, tw'.pc \notin {"check", "write"} PROVE BudgetInv'
  <2>1. BudgetHeld'
    BY <1>0, <1>c, BudgetHeldFrame
  <2>2. TeamBudget'
    BY <1>c DEF TeamBudget
  <2> QED BY <1>b, <2>1, <2>2
<1>1. CASE TeamValidate
  <2>1. UNCHANGED <<ws, cohort, granted>>
    BY <1>1 DEF TeamValidate
  <2>2. CASE tw' = TeamIdle
    BY <1>c, <2>1, <2>2 DEF TeamIdle
  <2>3. CASE tw' # TeamIdle
    <3> DEFINE shared == SharedTeamQuota(tw.team, tw.quota, ws)
    <3>1. tw' = [tw EXCEPT !.pc = "check", !.shared = shared]
      BY <1>1, <2>3 DEF TeamValidate, ReportTeamStatus, TeamDone
    <3>2. /\ SumOver(HeldBy(tw.team)) <= Guarantees(tw.team, ws)
          /\ Guarantees(tw.team, ws) \in Nat /\ SumOver(HeldBy(tw.team)) \in Nat
      BY GuaranteesCover, SumsNat DEF TypeOK
    <3>3. shared + SumOver(HeldBy(tw.team)) <= tw.quota
      BY <3>2, SumsNat DEF SharedTeamQuota
    <3>4. tw'.shared = shared /\ tw'.team = tw.team /\ tw'.quota = tw.quota
      <4> HIDE DEF shared
      <4> QED BY <3>1 DEF TypeOK, TeamWorker
    <3>5. SumOver(HeldBy(tw.team))' = SumOver(HeldBy(tw.team))
      BY <1>0, <3>4 DEF HeldBy, Held, InCohort
    <3>6. TeamBudget'
      <4> HIDE DEF shared
      <4> QED BY <3>3, <3>4, <3>5 DEF TeamBudget
    <3>7. BudgetHeld'
      BY <1>0, <2>1, BudgetHeldFrame
    <3> QED BY <1>b, <3>6, <3>7
  <2> QED BY <2>2, <2>3
<1>2. CASE TeamCheckCohort
  <2>1. UNCHANGED <<cohort, granted>> /\ tw.pc = "check"
    BY <1>2 DEF TeamCheckCohort
  <2>2. CASE tw' = TeamIdle
    BY <1>c, <2>1, <2>2 DEF TeamIdle
  <2>3. CASE tw' = [tw EXCEPT !.pc = "write"]
    <3>1. tw'.team = tw.team /\ tw'.quota = tw.quota /\ tw'.shared = tw.shared
      BY <2>3 DEF TypeOK, TeamWorker
    <3>2. TeamBudget'
      BY <1>0, <2>1, <3>1, TeamBudgetFrame
    <3>3. BudgetHeld'
      BY <1>0, <2>1, BudgetHeldFrame
    <3> QED BY <1>b, <3>2, <3>3
  <2> QED BY <1>2, <2>2, <2>3 DEF TeamCheckCohort, ReportTeamStatus, TeamDone
<1>3. CASE TeamWriteCohort
  <2>1. /\ cohort' = [cohort EXCEPT ![tw.team] = [up |-> TRUE, nominal |-> tw.shared]]
        /\ granted' = [granted EXCEPT ![tw.team] = tw.quota]
        /\ tw.pc = "write"
    BY <1>3 DEF TeamWriteCohort, WriteCohort
  <2>2. TeamBudget'
    BY <1>3 DEF TeamWriteCohort, TeamBudget, TypeOK, TeamWorker
  <2>3. ASSUME NEW t \in Teams PROVE cohort'[t].nominal + SumOver(HeldBy(t))' <= granted'[t]
    <3>1. SumOver(HeldBy(t))' = SumOver(HeldBy(t))
      BY <1>0 DEF HeldBy, Held, InCohort
    <3>2. CASE t = tw.team
      BY <1>a, <2>1, <3>1, <3>2 DEF TeamBudget, TypeOK
    <3>3. CASE t # tw.team
      BY <1>a, <2>1, <3>1, <3>3 DEF BudgetHeld, AppliedTeamAllocation, HeldBy, TypeOK
    <3> QED BY <3>2, <3>3
  <2>4. BudgetHeld'
    BY <2>3 DEF BudgetHeld, AppliedTeamAllocation, HeldBy
  <2> QED BY <1>b, <2>2, <2>4
<1>4. CASE TeamReportReady
  BY <1>c, <1>4 DEF TeamReportReady, ReportTeamStatus, TeamDone, TeamIdle
<1>5. CASE TeamFinalize
  BY <1>c, <1>5 DEF TeamFinalize, ReportTeamStatus, TeamDone, TeamIdle, TypeOK, TeamWorker
<1>6. CASE TeamDeleteCohort
  <2>1. /\ cohort' = [cohort EXCEPT ![tw.team] = NoCohort]
        /\ granted' = [granted EXCEPT ![tw.team] = 0]
        /\ tw.pc = "deleteCohort"
    BY <1>6 DEF TeamDeleteCohort
  <2>2. TeamBudget'
    BY <1>6 DEF TeamDeleteCohort, TeamBudget, TypeOK, TeamWorker
  <2>3. ASSUME NEW t \in Teams PROVE cohort'[t].nominal + SumOver(HeldBy(t))' <= granted'[t]
    <3>1. SumOver(HeldBy(t))' = SumOver(HeldBy(t))
      BY <1>0 DEF HeldBy, Held, InCohort
    <3>2. CASE t = tw.team
      <4>1. \A w \in Workspaces : HeldBy(t)[w] = 0
        BY <2>1, <3>2 DEF MembershipInv, TeamKnowledge, HeldBy, Held
      <4>2. SumOver(HeldBy(t)) = 0
        BY <4>1, HeldType, SumZero
      <4> QED BY <1>a, <2>1, <3>1, <3>2, <4>2 DEF NoCohort, TypeOK
    <3>3. CASE t # tw.team
      BY <1>a, <2>1, <3>1, <3>3 DEF BudgetHeld, AppliedTeamAllocation, HeldBy, TypeOK
    <3> QED BY <3>2, <3>3
  <2>4. BudgetHeld'
    BY <2>3 DEF BudgetHeld, AppliedTeamAllocation, HeldBy
  <2> QED BY <1>b, <2>2, <2>4
<1>7. CASE TeamRemoveFinalizer
  BY <1>c, <1>7 DEF TeamRemoveFinalizer, TeamDone, TeamIdle
<1> QED BY <1>1, <1>2, <1>3, <1>4, <1>5, <1>6, <1>7 DEF TeamStep

\* reconcileWorkspaceClusterQueue: Cohort first, then the ClusterQueue, then
\* the Cohort again, so that quota moving between them is never counted twice.
LEMMA WsStepBudget ==
    ASSUME TypeOK, TypeOK', MembershipInv, BudgetInv, WsStep
    PROVE  BudgetInv'
<1> USE DEF BudgetInv
<1> DEFINE t == ww.spec.team
<1>a. /\ LockDiscipline /\ tw' = tw /\ tw.pc = "idle" /\ ww.ws \in Workspaces
      /\ ww.pc \notin {"deleteQueue", "removeFinalizer"} => t \in Teams /\ ww.spec.st = "live"
  BY WsStepLock DEF MembershipInv, LockDiscipline, TypeOK
<1>b. TeamBudget'
  BY <1>a DEF TeamBudget
<1>c. ASSUME cq' = cq
      PROVE  \A u : \A w \in Workspaces : Held(w, u)' = Held(w, u) /\ Held(w, u) \in Nat
  BY <1>c, HeldType DEF Held, InCohort
<1>d. ASSUME UNCHANGED <<cohort, granted, cq>> PROVE BudgetHeld'
  <2>1. \A u : \A w \in Workspaces : Held(w, u)' <= Held(w, u)
    BY <1>c, <1>d
  <2> QED BY <1>d, <2>1, BudgetHeldFrame
<1>e. ASSUME ww' = WsIdle PROVE WsBudget'
  BY <1>e DEF WsBudget, WsIdle
<1>f. /\ SumOver(HeldBy(t)) \in Nat /\ SumOver(HeldNext) \in Nat /\ ww.tquota \in Nat /\ ww.shared \in Nat
      /\ t \in Teams => cohort[t].nominal \in Nat /\ granted[t] \in Nat
  BY SumsNat
<1>g. ASSUME ww.spec.st = "live"
      PROVE  /\ SumOver(HeldBy(t)) <= Guarantees(t, Proposed)
             /\ SumOver(HeldNext) <= Guarantees(t, Proposed)
             /\ Guarantees(t, Proposed) \in Nat
  <2>1. Proposed \in [Workspaces -> WsObject]
    BY DEF TypeOK, Proposed, WsWorker
  <2> QED BY <1>g, <2>1, GuaranteesCover
<1>h. ASSUME t \in Teams, cq' = cq, ww'.pc \in {"queue", "idle"},
             WriteCohort(t, ww.tquota, ww.shared), ww.shared + SumOver(HeldBy(t)) <= ww.tquota
      PROVE  BudgetHeld'
  <2>1. ASSUME NEW u \in Teams PROVE cohort'[u].nominal + SumOver(HeldBy(u))' <= granted'[u]
    <3>1. SumOver(HeldBy(u))' = SumOver(HeldBy(u))
      BY <1>h DEF HeldBy, Held, InCohort
    <3>2. CASE u = t
      BY <1>h, <3>1, <3>2 DEF WriteCohort, TypeOK
    <3>3. CASE u # t
      BY <1>h, <3>1, <3>3 DEF WriteCohort, BudgetHeld, AppliedTeamAllocation, HeldBy, TypeOK
    <3> QED BY <3>2, <3>3
  <2> QED BY <2>1 DEF BudgetHeld, AppliedTeamAllocation, HeldBy
<1>i. SumOver(HeldBy(t)) <= SumOver(HeldNext)
  <2>1. \A w \in Workspaces : HeldBy(t)[w] <= HeldNext[w]
    <3>1. ww.spec.quota \in Nat
      BY ConstantsAssumption DEF TypeOK, WsWorker, WsObject, Quota
    <3> QED BY <3>1, HeldType DEF HeldBy, HeldNext, Larger
  <2> QED BY <2>1, HeldType, SumMonotone, ConstantsAssumption
<1>1. CASE WsGetTeam
  <2>1. ww'.pc \in {"idle", "validate"}
    <3>1. CASE WsDone
      BY <3>1 DEF WsDone, WsIdle
    <3>2. CASE ~WsDone
      <4> DEFINE t0 == team[ww.spec.team]
      <4>1. ww' = [ww EXCEPT !.pc = "validate", !.tquota = t0.quota,
                       !.tready = t0.ready, !.tdeleting = (t0.st = "deleting")]
        BY <1>1, <3>2 DEF WsGetTeam
      <4> HIDE DEF t0
      <4> QED BY <4>1 DEF TypeOK, WsWorker
    <3> QED BY <3>1, <3>2
  <2> QED BY <1>1, <1>b, <1>d, <2>1 DEF WsGetTeam, store, WsBudget
<1>2. CASE WsValidate
  <2> DEFINE shared == SharedTeamQuota(t, ww.tquota, Proposed)
  <2>1. UNCHANGED <<cohort, granted, cq>> /\ ww.pc = "validate"
    BY <1>2 DEF WsValidate, store
  <2>2. BudgetHeld'
    BY <1>d, <2>1
  <2>3. \/ ww' = WsIdle
        \/ ww' = [ww EXCEPT !.pc = "queue"] /\ QueueReductionOnly(ww.ws, ww.spec)
        \/ ww' = [ww EXCEPT !.pc = "check", !.shared = shared]
    BY <1>2 DEF WsValidate, WsDone
  <2>4. shared + SumOver(HeldNext) <= ww.tquota
    BY <1>a, <1>f, <1>g, <2>1 DEF SharedTeamQuota
  <2> HIDE DEF shared
  <2>5. CASE ww' = [ww EXCEPT !.pc = "queue"] /\ QueueReductionOnly(ww.ws, ww.spec)
    <3>1. ww'.pc = "queue" /\ ww'.ws = ww.ws /\ ww'.spec = ww.spec
      BY <2>5 DEF TypeOK, WsWorker
    <3>2. SumOver(HeldNext)' = SumOver(HeldNext)
      BY <2>1, <3>1 DEF HeldNext, Held, InCohort
    <3>3. \A w \in Workspaces : HeldNext[w] <= HeldBy(t)[w]
      <4>1. ww.spec.quota <= Held(ww.ws, t) /\ ww.spec.quota \in Nat
        BY <2>5, ConstantsAssumption
           DEF QueueReductionOnly, Held, TypeOK, WsWorker, WsObject, Quota
      <4> QED BY <4>1, HeldType DEF HeldNext, HeldBy, Larger
    <3>4. SumOver(HeldNext) <= SumOver(HeldBy(t))
      BY <3>3, HeldType, SumMonotone, ConstantsAssumption
    <3>5. t \in Teams /\ cohort[t].nominal + SumOver(HeldBy(t)) <= granted[t]
      BY <1>a, <2>1 DEF BudgetHeld, AppliedTeamAllocation, HeldBy
    <3>6. cohort[t].nominal + SumOver(HeldNext) <= granted[t]
      BY <1>f, <3>4, <3>5
    <3>7. WsBudget'
      BY <2>1, <3>1, <3>2, <3>6 DEF WsBudget
    <3> QED BY <1>b, <2>2, <3>7
  <2>6. CASE ww' = [ww EXCEPT !.pc = "check", !.shared = shared]
    <3>1. /\ ww'.pc = "check" /\ ww'.ws = ww.ws /\ ww'.spec = ww.spec
          /\ ww'.shared = shared /\ ww'.tquota = ww.tquota
      BY <2>6 DEF TypeOK, WsWorker
    <3>2. SumOver(HeldNext)' = SumOver(HeldNext)
      BY <2>1, <3>1 DEF HeldNext, Held, InCohort
    <3>3. WsBudget'
      BY <2>4, <3>1, <3>2 DEF WsBudget
    <3> QED BY <1>b, <2>2, <3>3
  <2> QED BY <1>b, <1>e, <2>2, <2>3, <2>5, <2>6
<1>3. CASE WsCheckCohort
  <2>1. UNCHANGED <<cohort, granted, cq>> /\ ww.pc = "check"
    BY <1>3 DEF WsCheckCohort, store
  <2>2. CASE ww' = [ww EXCEPT !.pc = "cohortBefore"]
    <3>1. /\ ww'.pc = "cohortBefore" /\ ww'.ws = ww.ws /\ ww'.spec = ww.spec
          /\ ww'.shared = ww.shared /\ ww'.tquota = ww.tquota
      BY <2>2 DEF TypeOK, WsWorker
    <3>2. SumOver(HeldNext)' = SumOver(HeldNext)
      BY <2>1, <3>1 DEF HeldNext, Held, InCohort
    <3>3. WsBudget'
      BY <2>1, <3>1, <3>2 DEF WsBudget
    <3> QED BY <1>b, <1>d, <2>1, <3>3
  <2> QED BY <1>3, <1>b, <1>d, <1>e, <2>1, <2>2 DEF WsCheckCohort, WsDone
<1>4. CASE WsWriteCohortBefore
  <2>1. cq' = cq /\ ww.pc = "cohortBefore" /\ WriteCohort(t, ww.tquota, ww.shared)
    BY <1>4 DEF WsWriteCohortBefore
  <2>2. ww'.pc = "queue" /\ ww'.ws = ww.ws /\ ww'.spec = ww.spec
    BY <1>4 DEF WsWriteCohortBefore, TypeOK, WsWorker
  <2>3. ww.shared + SumOver(HeldNext) <= ww.tquota
    BY <2>1 DEF WsBudget
  <2>4. ww.shared + SumOver(HeldBy(t)) <= ww.tquota
    BY <1>f, <1>i, <2>3
  <2>5. BudgetHeld'
    BY <1>a, <1>h, <2>1, <2>2, <2>4
  <2>6. SumOver(HeldNext)' = SumOver(HeldNext)
    BY <2>1, <2>2 DEF HeldNext, Held, InCohort
  <2>7. t \in Teams /\ cohort'[t].nominal = ww.shared /\ granted'[t] = ww.tquota
    BY <1>a, <2>1 DEF WriteCohort, TypeOK
  <2>8. WsBudget'
    BY <2>2, <2>3, <2>6, <2>7 DEF WsBudget
  <2> QED BY <1>b, <2>5, <2>8
<1>5. CASE WsWriteQueue
  <2>1. UNCHANGED <<cohort, granted>> /\ ww.pc = "queue"
    BY <1>5 DEF WsWriteQueue
  <2>2. CASE cq' = cq /\ ww' = WsIdle
    BY <1>b, <1>d, <1>e, <2>1, <2>2
  <2>3. CASE cq' = [cq EXCEPT ![ww.ws] = DesiredQueue(ww.ws, ww.spec)] /\ ww' = [ww EXCEPT !.pc = "recheck"]
    <3>1. WsBudget'
      BY <2>3 DEF WsBudget, TypeOK, WsWorker
    <3>2. \A w \in Workspaces : cq'[w] = IF w = ww.ws THEN DesiredQueue(ww.ws, ww.spec) ELSE cq[w]
      BY <2>3 DEF TypeOK
    <3>3. \A w \in Workspaces : \A u : Held(w, u)' =
             IF w = ww.ws THEN (IF u = t THEN ww.spec.quota ELSE 0) ELSE Held(w, u)
      BY <3>2 DEF Held, InCohort, DesiredQueue
    <3>4. ASSUME NEW u \in Teams PROVE cohort'[u].nominal + SumOver(HeldBy(u))' <= granted'[u]
      <4>0. ww.spec.quota \in Nat
        BY ConstantsAssumption DEF TypeOK, WsWorker, WsObject, Quota
      <4>1. CASE u # t
        <5>1. \A w \in Workspaces : Held(w, u)' <= Held(w, u)
          BY <3>3, <4>1, HeldType
        <5>2. SumOver(HeldBy(u))' <= SumOver(HeldBy(u))
          BY <5>1, SumShrinks
        <5>3. cohort[u].nominal + SumOver(HeldBy(u)) <= granted[u]
          BY DEF BudgetHeld, AppliedTeamAllocation, HeldBy
        <5> QED BY <2>1, <5>2, <5>3, SumsNat
      <4>2. CASE u = t
        <5> DEFINE f == HeldBy(u)'
        <5>1. f = [w \in Workspaces |-> Held(w, u)']
          BY DEF HeldBy
        <5>2. f \in [Workspaces -> Nat] /\ \A w \in Workspaces : f[w] <= HeldNext[w]
          BY <3>3, <4>0, <4>2, <5>1, HeldType DEF HeldNext, Larger
        <5>3. SumOver(HeldBy(u))' = SumOver(f)
          BY DEF SumOver, Units
        <5> HIDE DEF f
        <5>4. SumOver(f) <= SumOver(HeldNext)
          BY <5>2, HeldType, SumMonotone, ConstantsAssumption
        <5>5. cohort[t].nominal + SumOver(HeldNext) <= granted[t]
          BY <2>1 DEF WsBudget
        <5>6. SumOver(f) \in Nat
          BY <5>2, SumNat, ConstantsAssumption
        <5> QED BY <1>f, <2>1, <4>2, <5>3, <5>4, <5>5, <5>6
      <4> QED BY <4>1, <4>2
    <3>5. BudgetHeld'
      BY <3>4 DEF BudgetHeld, AppliedTeamAllocation, HeldBy
    <3> QED BY <1>b, <3>1, <3>5
  <2> QED BY <1>5, <2>2, <2>3 DEF WsWriteQueue, WsDone
<1>6. CASE WsRecheckCohort
  <2> DEFINE shared == SharedTeamQuota(t, ww.tquota, Proposed)
  <2>1. UNCHANGED <<cohort, granted, cq>> /\ ww.pc = "recheck"
    BY <1>6 DEF WsRecheckCohort, store
  <2>2. \/ ww' = WsIdle
        \/ ww' = [ww EXCEPT !.pc = "cohortAfter", !.shared = shared]
    BY <1>6 DEF WsRecheckCohort, WsDone
  <2>3. shared + SumOver(HeldBy(t)) <= ww.tquota
    BY <1>a, <1>f, <1>g, <2>1 DEF SharedTeamQuota
  <2> HIDE DEF shared
  <2>4. CASE ww' = [ww EXCEPT !.pc = "cohortAfter", !.shared = shared]
    <3>1. /\ ww'.pc = "cohortAfter" /\ ww'.spec = ww.spec
          /\ ww'.shared = shared /\ ww'.tquota = ww.tquota
      BY <2>4 DEF TypeOK, WsWorker
    <3>2. SumOver(HeldBy(ww.spec.team))' = SumOver(HeldBy(t))
      BY <2>1, <3>1 DEF HeldBy, Held, InCohort
    <3>3. WsBudget'
      BY <2>3, <3>1, <3>2 DEF WsBudget
    <3> QED BY <1>b, <1>d, <2>1, <3>3
  <2> QED BY <1>b, <1>d, <1>e, <2>1, <2>2, <2>4
<1>7. CASE WsWriteCohortAfter
  <2>1. /\ cq' = cq /\ ww.pc = "cohortAfter" /\ WriteCohort(t, ww.tquota, ww.shared)
        /\ ww' = WsIdle /\ ww'.pc = "idle"
    BY <1>7 DEF WsWriteCohortAfter, WsDone, WsIdle
  <2>2. ww.shared + SumOver(HeldBy(t)) <= ww.tquota
    BY <2>1 DEF WsBudget
  <2> QED BY <1>a, <1>b, <1>e, <1>h, <2>1, <2>2
<1>8. CASE WsDeleteQueue
  <2>1. UNCHANGED <<cohort, granted>> /\ ww'.pc \in {"idle", "removeFinalizer"}
    BY <1>8 DEF WsDeleteQueue, WsDone, WsIdle, TypeOK, WsWorker
  <2>2. \A u, w : w \in Workspaces => Held(w, u)' <= Held(w, u)
    <3>1. CASE cq' = [cq EXCEPT ![ww.ws] = NoQueue]
      BY <3>1, HeldType DEF Held, InCohort, NoQueue, TypeOK
    <3>2. CASE cq' = [cq EXCEPT ![ww.ws].term = TRUE]
      BY <3>2, HeldType DEF Held, InCohort, TypeOK, QueueObject
    <3> QED BY <1>8, <3>1, <3>2 DEF WsDeleteQueue
  <2>3. BudgetHeld'
    BY <2>1, <2>2, BudgetHeldFrame
  <2> QED BY <1>b, <2>1, <2>3 DEF WsBudget
<1>9. CASE WsRemoveFinalizer
  BY <1>9, <1>b, <1>d, <1>e DEF WsRemoveFinalizer, WsDone
<1> QED BY <1>1, <1>2, <1>3, <1>4, <1>5, <1>6, <1>7, <1>8, <1>9 DEF WsStep

\* Kueue takes no quota: it reserves within a queue, or removes a deleted one.
LEMMA KueueGivesBack ==
    ASSUME TypeOK, NEW w \in Workspaces, Reserve(w) \/ Release(w)
    PROVE  \A u, v : v \in Workspaces => Held(v, u)' <= Held(v, u)
<1>1. cq[w] \in QueueObject
  BY DEF TypeOK
<1>2. \A v \in Workspaces : cq'[v] # cq[v] =>
         \/ cq'[v] = NoQueue
         \/ cq'[v].up = cq[v].up /\ cq'[v].cohort = cq[v].cohort /\ cq'[v].nominal = cq[v].nominal
  BY <1>1 DEF Reserve, Release, TypeOK, QueueObject
<1> SUFFICES ASSUME NEW u, NEW v \in Workspaces PROVE Held(v, u)' <= Held(v, u)
  OBVIOUS
<1>3. Held(v, u) \in Nat
  BY HeldType
<1>4. CASE cq'[v] = NoQueue
  BY <1>3, <1>4 DEF Held, InCohort, NoQueue
<1>5. CASE cq'[v].up = cq[v].up /\ cq'[v].cohort = cq[v].cohort /\ cq'[v].nominal = cq[v].nominal
  <2>1. Held(v, u)' = Held(v, u)
    BY <1>5 DEF Held, InCohort
  <2> QED BY <1>3, <2>1
<1> QED BY <1>2, <1>4, <1>5

\* Every step keeps the budget: the two reconcilers by the lemmas above, users,
\* Kueue, failed calls and restarts because no quota grows.
LEMMA NextBudget ==
    ASSUME TypeOK, TypeOK', MembershipInv, BudgetInv, [Next]_vars
    PROVE  BudgetInv'
<1>0. LockDiscipline
  BY DEF MembershipInv
<1>a. ASSUME UNCHANGED <<cohort, granted>>, \A u, w : w \in Workspaces => Held(w, u)' <= Held(w, u),
             tw'.pc \in {"check", "write"} =>
                /\ tw'.pc = tw.pc /\ tw'.team = tw.team
                /\ tw'.quota = tw.quota /\ tw'.shared = tw.shared,
             ww'.pc \in {"check", "cohortBefore", "queue", "cohortAfter"} => ww' = ww
      PROVE  BudgetInv'
  <2>1. BudgetHeld'
    BY <1>a, BudgetHeldFrame DEF BudgetInv
  <2>2. TeamBudget'
    BY <1>a, TeamBudgetFrame DEF BudgetInv
  <2>3. WsBudget'
    BY <1>0, <1>a, WsBudgetFrame DEF BudgetInv
  <2> QED BY <2>1, <2>2, <2>3 DEF BudgetInv
<1>b. ASSUME cq' = cq PROVE \A u, w : w \in Workspaces => Held(w, u)' <= Held(w, u)
  <2>1. \A u, w : w \in Workspaces => Held(w, u)' = Held(w, u) /\ Held(w, u) \in Nat
    BY <1>b, HeldType DEF Held, InCohort
  <2> QED BY <2>1
<1>1. CASE TeamAbort
  BY <1>1, <1>a, <1>b DEF TeamAbort, TeamDone, TeamIdle, store
<1>2. ASSUME NEW t \in Teams, TeamAddFinalizer(t) \/ TeamLock(t) PROVE BudgetInv'
  BY <1>2, <1>a, <1>b DEF TeamAddFinalizer, TeamLock, store
<1>3. CASE WsLock \/ WsAbort
  BY <1>3, <1>a, <1>b DEF WsLock, WsAbort, WsDone, WsIdle, store, TypeOK, WsWorker
<1>4. ASSUME NEW w \in Workspaces, WsAddFinalizer(w) \/ WsRead(w) \/ WsCleanupLock(w) PROVE BudgetInv'
  BY <1>4, <1>a, <1>b DEF WsAddFinalizer, WsRead, WsCleanupLock, WsIdle, store
<1>5. ASSUME NEW w \in Workspaces, Reserve(w) \/ Release(w) PROVE BudgetInv'
  <2>1. UNCHANGED <<cohort, granted, tw, ww>>
    BY <1>5 DEF Reserve, Release
  <2> QED BY <1>a, <1>5, <2>1, KueueGivesBack
<1>6. CASE UserStep
  BY <1>6, <1>a, <1>b, UserStepFrame
<1>7. CASE UNCHANGED vars
  BY <1>7, <1>a, <1>b DEF vars
<1> QED BY <1>1, <1>2, <1>3, <1>4, <1>5, <1>6, <1>7, TeamStepBudget, WsStepBudget DEF Next

\* Before any controller has run nothing is handed out.
LEMMA InitBudget == Init => BudgetInv
<1> SUFFICES ASSUME Init PROVE BudgetInv
  OBVIOUS
<1>1. TypeOK
  BY InitTypeLock
<1>2. \A t : SumOver(HeldBy(t)) = 0
  <2>1. \A t : \A w \in Workspaces : HeldBy(t)[w] = 0
    BY DEF Init, NoQueue, HeldBy, Held, InCohort
  <2> QED BY <1>1, <2>1, HeldType, SumZero
<1>3. BudgetHeld
  <2> SUFFICES ASSUME NEW t \in Teams PROVE AppliedTeamAllocation(t) <= granted[t]
    BY DEF BudgetHeld
  <2>1. AppliedTeamAllocation(t) = cohort[t].nominal + SumOver(HeldBy(t))
    BY DEF AppliedTeamAllocation, HeldBy
  <2>2. cohort[t].nominal = 0 /\ granted[t] = 0
    BY DEF Init, NoCohort
  <2> QED BY <1>2, <2>1, <2>2
<1>4. TeamBudget /\ WsBudget
  BY DEF Init, TeamBudget, WsBudget, TeamIdle, WsIdle
<1> QED BY <1>3, <1>4 DEF BudgetInv

\* What a team's Cohort and its ClusterQueues hold together never exceeds the
\* team quota last applied, wherever the two-step writes are interrupted.
THEOREM BudgetSafe == Spec => []BudgetHeld
<1> DEFINE Inv == TypeOK /\ MembershipInv /\ BudgetInv
<1>1. Init => Inv
  BY InitTypeLock, InitMembership, InitBudget
<1>2. Inv /\ [Next]_vars => Inv'
  BY NextType, NextLock, NextMembership, NextBudget DEF MembershipInv
<1>3. Inv => BudgetHeld
  BY DEF BudgetInv
<1> HIDE DEF Inv
<1> QED BY <1>1, <1>2, <1>3, PTL DEF Spec

-----------------------------------------------------------------------------
(* The capacity *)

\* What appliedTeamAllocation returns is a quota.
LEMMA AppliedType ==
    ASSUME TypeOK
    PROVE  /\ \A t \in Teams : AppliedTeamAllocation(t) = cohort[t].nominal + SumOver(HeldBy(t))
           /\ \A t \in Teams : /\ AppliedTeamAllocation(t) \in Nat /\ cohort[t].nominal \in Nat
                               /\ SumOver(HeldBy(t)) \in Nat
           /\ IsFiniteSet(Teams) /\ tw.quota \in Nat /\ tw.shared \in Nat
           /\ \A t : AppliedBeside(t, tw.quota) \in [Teams -> Nat]
<1>1. \A t \in Teams : AppliedTeamAllocation(t) = cohort[t].nominal + SumOver(HeldBy(t))
  BY DEF AppliedTeamAllocation, HeldBy
<1>2. \A t \in Teams : cohort[t].nominal \in Nat /\ SumOver(HeldBy(t)) \in Nat
  BY HeldType DEF TypeOK, CohortObject
<1>3. tw.quota \in Nat /\ tw.shared \in Nat /\ IsFiniteSet(Teams)
  BY ConstantsAssumption DEF TypeOK, TeamWorker, Quota
<1>4. \A t \in Teams : AppliedTeamAllocation(t) \in Nat
  BY <1>1, <1>2
<1>5. \A t : AppliedBeside(t, tw.quota) \in [Teams -> Nat]
  BY <1>3, <1>4 DEF AppliedBeside
<1> QED BY <1>1, <1>2, <1>3, <1>4, <1>5

\* ... before and after a step.
LEMMA AppliedTypeNext == TypeOK' =>
    (/\ \A t \in Teams : AppliedTeamAllocation(t) = cohort[t].nominal + SumOver(HeldBy(t))
     /\ \A t \in Teams : /\ AppliedTeamAllocation(t) \in Nat /\ cohort[t].nominal \in Nat
                         /\ SumOver(HeldBy(t)) \in Nat
     /\ \A t : AppliedBeside(t, tw.quota) \in [Teams -> Nat])'
<1>1. TypeOK => /\ \A t \in Teams : AppliedTeamAllocation(t) = cohort[t].nominal + SumOver(HeldBy(t))
                /\ \A t \in Teams : /\ AppliedTeamAllocation(t) \in Nat /\ cohort[t].nominal \in Nat
                                    /\ SumOver(HeldBy(t)) \in Nat
                /\ \A t : AppliedBeside(t, tw.quota) \in [Teams -> Nat]
  BY AppliedType
<1> QED BY <1>1, PTL

\* While the TauTeam reconciler holds the mutex nobody else gives a team more:
\* what it has validated stays true.
LEMMA WriteFitsFrame ==
    ASSUME TypeOK, TypeOK', LockDiscipline, WriteFits, cohort' = cohort,
           tw'.pc \in {"check", "write"} /\ tw'.fresh =>
              /\ tw.pc \in {"check", "write"} /\ tw.fresh
              /\ tw'.team = tw.team /\ tw'.quota = tw.quota /\ tw'.shared = tw.shared
              /\ \A t \in Teams : \A w \in Workspaces : Held(w, t)' <= Held(w, t)
    PROVE  tw'.pc \in {"check", "write"} /\ tw'.fresh =>
              \/ tw'.shared < cohort'[tw'.team].nominal
              \/ SumOver(AppliedBeside(tw.team, tw.quota))' <= Capacity
<1> SUFFICES ASSUME tw'.pc \in {"check", "write"}, tw'.fresh, ~(tw'.shared < cohort'[tw'.team].nominal)
             PROVE  SumOver(AppliedBeside(tw.team, tw.quota))' <= Capacity
  OBVIOUS
<1> DEFINE f == AppliedBeside(tw.team, tw.quota)'
           g == AppliedBeside(tw.team, tw.quota)
<1>1. tw'.team = tw.team /\ tw'.quota = tw.quota /\ SumOver(g) <= Capacity
  BY DEF WriteFits
<1>2. f \in [Teams -> Nat] /\ g \in [Teams -> Nat] /\ IsFiniteSet(Teams)
  BY AppliedType, AppliedTypeNext
<1>3. \A u \in Teams : AppliedTeamAllocation(u)' <= AppliedTeamAllocation(u)
  <2> TAKE u \in Teams
  <2>1. SumOver(HeldBy(u))' <= SumOver(HeldBy(u))
    BY SumShrinks
  <2> QED BY <2>1, AppliedType, AppliedTypeNext
<1>4. f = [u \in Teams |-> IF u = tw'.team THEN tw'.quota ELSE AppliedTeamAllocation(u)']
  BY DEF AppliedBeside
<1>5. \A u \in Teams : f[u] <= g[u]
  BY <1>1, <1>3, <1>4, AppliedType DEF AppliedBeside
<1>6. SumOver(AppliedBeside(tw.team, tw.quota))' = SumOver(f)
  BY DEF SumOver, Units
<1>7. SumOver(f) \in Nat /\ SumOver(g) \in Nat /\ Capacity \in Nat
  BY <1>2, SumNat, ConstantsAssumption
<1> HIDE DEF f, g
<1>8. SumOver(f) <= SumOver(g)
  BY <1>2, <1>5, SumMonotone
<1> QED BY <1>1, <1>6, <1>7, <1>8

\* validateTeamCapacity: every team has been charged with at least what it holds, and
\* this one with what it asks for; or it gives quota back.
LEMMA Validated ==
    ASSUME TypeOK, MembershipInv, CapacityInv, tw.pc = "validate", tw.fresh,
           CapacityFits(tw.team, tw.quota), GuaranteesFit(SharedTeamQuota(tw.team, tw.quota, ws))
    PROVE  \/ SharedTeamQuota(tw.team, tw.quota, ws) < cohort[tw.team].nominal
           \/ SumOver(AppliedBeside(tw.team, tw.quota)) <= Capacity
<1> DEFINE t == tw.team
           charge == [u \in Teams |-> IF team[u].st = "absent" THEN 0
                                      ELSE Larger(team[u].quota, AppliedTeamAllocation(u))]
           g == AppliedBeside(t, tw.quota)
<1>0. t \in Teams /\ team[t].st = "live" /\ team[t].quota = tw.quota
  BY DEF MembershipInv, LockDiscipline, TeamKnowledge, CapacityInv, WriteFits
<1>1. CASE tw.quota < AppliedTeamAllocation(t)
  <2>1. SumOver(HeldBy(t)) <= Guarantees(t, ws) /\ Guarantees(t, ws) \in Nat
    BY GuaranteesCover DEF TypeOK
  <2> QED BY <1>0, <1>1, <2>1, AppliedType DEF SharedTeamQuota
<1>2. CASE ~(tw.quota < AppliedTeamAllocation(t))
  <2>1. SumOver(charge) <= Capacity
    BY <1>2 DEF CapacityFits
  <2>2. \A u \in Teams : team[u].quota \in Nat
    BY ConstantsAssumption DEF TypeOK, TeamObject, Quota
  <2>3. charge \in [Teams -> Nat] /\ g \in [Teams -> Nat] /\ IsFiniteSet(Teams)
    BY <2>2, AppliedType DEF Larger
  <2>4. ASSUME NEW u \in Teams PROVE g[u] <= charge[u]
    <3>1. CASE team[u].st = "absent"
      <4>1. \A w \in Workspaces : ~InCohort(w, u)
        BY <3>1 DEF MembershipInv, MembershipIntact, InCohort
      <4>2. SumOver(HeldBy(u)) = 0
        BY <4>1, HeldType, SumZero DEF HeldBy, Held
      <4>3. cohort[u].nominal = 0
        BY <3>1 DEF CapacityInv, CohortOwned, Finalized
      <4>4. AppliedTeamAllocation(u) = 0 /\ u # t
        BY <1>0, <3>1, <4>2, <4>3, AppliedType
      <4> QED BY <3>1, <4>4 DEF AppliedBeside
    <3>2. CASE team[u].st # "absent"
      BY <1>0, <2>2, <3>2, AppliedType DEF AppliedBeside, Larger
    <3> QED BY <3>1, <3>2
  <2> HIDE DEF charge, g
  <2>5. SumOver(g) <= SumOver(charge) /\ SumOver(g) \in Nat /\ SumOver(charge) \in Nat /\ Capacity \in Nat
    BY <2>3, <2>4, SumMonotone, SumNat, ConstantsAssumption
  <2> QED BY <2>1, <2>5 DEF g
<1> QED BY <1>1, <1>2

\* A team without a finalizer has nothing in Kueue, after every step.
LEMMA OwnedStep ==
    ASSUME TypeOK, MembershipInv, CapacityInv, [Next]_vars
    PROVE  CohortOwned'
<1> USE DEF TypeOK, MembershipInv, LockDiscipline, TeamKnowledge, WsKnowledge, MembershipIntact,
            CapacityInv, CohortOwned, InCohort, Finalized
<1>1. ASSUME TeamStep PROVE CohortOwned'
  <2>1. ww' = ww /\ tw.team \in Teams /\ lock = "team" /\ ww.pc \in {"idle", "wait"}
    BY <1>1, TeamStepLock DEF WsWorker
  <2>2. CASE tw.pc \in {"validate", "check", "report", "finalize"}
    <3>0. TeamValidate \/ TeamCheckCohort \/ TeamReportReady \/ TeamFinalize
      BY ONLY <1>1, <2>2 DEF TeamStep, TeamWriteCohort, TeamDeleteCohort, TeamRemoveFinalizer
    <3>1. /\ cohort' = cohort
          /\ \/ ReportTeamStatus(TRUE) \/ ReportTeamStatus(FALSE)
             \/ team' = team /\ tw'.pc # "removeFinalizer"
      <4>1. CASE TeamValidate
        <5> DEFINE n == SharedTeamQuota(tw.team, tw.quota, ws)
        <5>1. cohort' = cohort /\ (ReportTeamStatus(FALSE) \/ (team' = team /\ tw' = [tw EXCEPT !.pc = "check", !.shared = n]))
          BY ONLY <4>1 DEF TeamValidate
        <5> HIDE DEF n
        <5>2. [tw EXCEPT !.pc = "check", !.shared = n].pc = "check"
          BY DEF TeamWorker
        <5> QED BY ONLY <5>1, <5>2
      <4>2. CASE TeamCheckCohort
        <5>1. cohort' = cohort /\ (ReportTeamStatus(FALSE) \/ (team' = team /\ tw' = [tw EXCEPT !.pc = "write"]))
          BY ONLY <4>2 DEF TeamCheckCohort
        <5>2. [tw EXCEPT !.pc = "write"].pc = "write"
          BY DEF TeamWorker
        <5> QED BY ONLY <5>1, <5>2
      <4>3. CASE TeamReportReady
        BY ONLY <4>3 DEF TeamReportReady
      <4>4. CASE TeamFinalize
        <5>1. cohort' = cohort /\ (ReportTeamStatus(FALSE) \/ (team' = team /\ tw' = [tw EXCEPT !.pc = "deleteCohort"]))
          BY ONLY <4>4 DEF TeamFinalize
        <5>2. [tw EXCEPT !.pc = "deleteCohort"].pc = "deleteCohort"
          BY DEF TeamWorker
        <5> QED BY ONLY <5>1, <5>2
      <4> QED BY <3>0, <4>1, <4>2, <4>3, <4>4
    <3>2. (\A t \in Teams : team'[t].st = team[t].st) /\ tw'.pc # "removeFinalizer"
      <4>1. ASSUME NEW b \in BOOLEAN, ReportTeamStatus(b)
            PROVE  (\A t \in Teams : team'[t].st = team[t].st) /\ tw'.pc # "removeFinalizer"
        <5>1. (\A t \in Teams : team'[t].st = team[t].st) /\ tw' = TeamIdle
          BY ONLY TypeOK, <2>1, <4>1, ReportFrame
        <5> QED BY ONLY <5>1 DEF TeamIdle
      <4>2. CASE team' = team /\ tw'.pc # "removeFinalizer"
        BY ONLY <4>2
      <4> QED BY ONLY <3>1, <4>1, <4>2
    <3> QED BY <2>1, <3>1, <3>2
  <2>3. CASE tw.pc = "write"
    <3>1. /\ cohort' = [cohort EXCEPT ![tw.team] = [up |-> TRUE, nominal |-> tw.shared]]
          /\ team' = team /\ tw'.pc = "report"
      BY <1>1, <2>3 DEF TeamStep, TeamValidate, TeamCheckCohort, TeamWriteCohort, TeamReportReady, TeamFinalize,
         TeamDeleteCohort, TeamRemoveFinalizer, WriteCohort, TeamWorker
    <3>2. team[tw.team].st \in Finalized /\ \A t \in Teams : t # tw.team => cohort'[t] = cohort[t]
      BY <2>3, <3>1
    <3> QED BY <2>1, <3>1, <3>2
  <2>4. CASE tw.pc = "deleteCohort"
    <3>1. cohort' = [cohort EXCEPT ![tw.team] = NoCohort] /\ team' = team /\ tw'.team = tw.team
      BY <1>1, <2>4 DEF TeamStep, TeamValidate, TeamCheckCohort, TeamWriteCohort, TeamReportReady, TeamFinalize,
         TeamDeleteCohort, TeamRemoveFinalizer, TeamWorker
    <3>2. cohort'[tw.team].nominal = 0 /\ \A t \in Teams : t # tw.team => cohort'[t] = cohort[t]
      BY <2>1, <3>1 DEF NoCohort
    <3> QED BY <2>1, <3>1, <3>2
  <2>5. CASE tw.pc = "removeFinalizer"
    <3>1. cohort' = cohort /\ tw' = TeamIdle /\ (team' = team \/ team' = [team EXCEPT ![tw.team] = NoTeamObject])
      BY <1>1, <2>5 DEF TeamStep, TeamValidate, TeamCheckCohort, TeamWriteCohort, TeamReportReady, TeamFinalize,
         TeamDeleteCohort, TeamRemoveFinalizer, TeamDone
    <3> QED BY <2>1, <2>5, <3>1 DEF TeamIdle
  <2> QED BY <1>1, <2>2, <2>3, <2>4, <2>5, TeamStepLock DEF TeamWorker
<1>2. ASSUME WsStep PROVE CohortOwned'
  <2>1. UNCHANGED <<team, tw>> /\ lock = "workspace" /\ tw.pc = "idle"
    BY <1>2, WsStepLock DEF WsStep, WsGetTeam, WsValidate, WsCheckCohort, WsWriteCohortBefore, WsWriteQueue,
       WsRecheckCohort, WsWriteCohortAfter, WsDeleteQueue, WsRemoveFinalizer, store
  <2>2. ASSUME WsWriteCohortBefore \/ WsWriteCohortAfter PROVE CohortOwned'
    <3>1. ww.spec.team \in Teams /\ team[ww.spec.team].st \in Finalized
      BY <2>2 DEF WsWriteCohortBefore, WsWriteCohortAfter
    <3>2. cohort' = [cohort EXCEPT ![ww.spec.team] = [up |-> TRUE, nominal |-> ww.shared]]
      BY <2>2 DEF WsWriteCohortBefore, WsWriteCohortAfter, WriteCohort
    <3>3. \A t \in Teams : t # ww.spec.team => cohort'[t] = cohort[t]
      BY <3>2
    <3>4. ww'.pc = "idle" \/ ww'.spec = ww.spec
      BY <2>2 DEF WsWriteCohortBefore, WsWriteCohortAfter, WsDone, WsIdle, WsWorker
    <3> QED BY <2>1, <3>1, <3>3, <3>4
  <2>3. CASE ~(WsWriteCohortBefore \/ WsWriteCohortAfter)
    <3>1. cohort' = cohort
      BY <1>2, <2>3 DEF WsStep, WsGetTeam, WsValidate, WsCheckCohort, WsWriteQueue,
         WsRecheckCohort, WsDeleteQueue, WsRemoveFinalizer, store
    <3>2. ww'.pc \in {"check", "cohortBefore", "queue", "recheck", "cohortAfter"} => team[ww'.spec.team].st \in Finalized
      <4>1. CASE WsValidate
        <5> DEFINE n == SharedTeamQuota(ww.spec.team, ww.tquota, Proposed)
        <5>1. \/ ww' = WsIdle
              \/ /\ ww' = [ww EXCEPT !.pc = "queue"] \/ ww' = [ww EXCEPT !.pc = "check", !.shared = n]
                 /\ QueueReductionOnly(ww.ws, ww.spec) \/ ww.tready
          BY ONLY <4>1 DEF WsValidate, WsAdmitted, WsDone
        <5>2. ww.pc = "validate" /\ ww.spec.team \in Teams /\ ww.ws \in Workspaces
          BY <4>1 DEF WsValidate
        <5> HIDE DEF n
        <5>5. ww'.pc = "idle" \/ ww'.spec = ww.spec
          <6>1. [ww EXCEPT !.pc = "queue"].spec = ww.spec /\ [ww EXCEPT !.pc = "check", !.shared = n].spec = ww.spec
            BY DEF WsWorker
          <6>2. WsIdle.pc = "idle"
            BY DEF WsIdle
          <6>3. ww' = WsIdle \/ ww' = [ww EXCEPT !.pc = "queue"] \/ ww' = [ww EXCEPT !.pc = "check", !.shared = n]
            BY ONLY <5>1
          <6> QED BY ONLY <6>1, <6>2, <6>3
        <5>3. CASE QueueReductionOnly(ww.ws, ww.spec)
          <6>1. team[ww.spec.team].st \in Finalized
            BY <5>2, <5>3 DEF QueueReductionOnly
          <6> QED BY <5>5, <6>1
        <5>4. CASE ww.tready
          BY <5>2, <5>4, <5>5
        <5> QED BY <5>1, <5>3, <5>4 DEF WsIdle
      <4>2. CASE WsGetTeam \/ WsDeleteQueue \/ WsRemoveFinalizer
        <5>1. ww'.pc \in {"idle", "validate", "removeFinalizer"}
          <6>1. CASE WsGetTeam
            <7> DEFINE t == team[ww.spec.team]
                       r == [ww EXCEPT !.pc = "validate", !.tquota = t.quota, !.tready = t.ready,
                                       !.tdeleting = (t.st = "deleting")]
            <7>1. ww' = WsIdle \/ ww' = r
              BY ONLY <6>1 DEF WsGetTeam, WsDone
            <7>2. r.pc = "validate" /\ WsIdle.pc = "idle"
              BY DEF WsIdle, WsWorker
            <7> HIDE DEF r
            <7> QED BY ONLY <7>1, <7>2
          <6>2. CASE WsDeleteQueue
            <7>1. ww' = WsIdle \/ ww' = [ww EXCEPT !.pc = "removeFinalizer"]
              BY ONLY <6>2 DEF WsDeleteQueue, WsDone
            <7> QED BY <7>1 DEF WsIdle, WsWorker
          <6>3. CASE WsRemoveFinalizer
            BY ONLY <6>3 DEF WsRemoveFinalizer, WsDone, WsIdle
          <6> QED BY <4>2, <6>1, <6>2, <6>3
        <5> QED BY <5>1
      <4>3. CASE WsCheckCohort \/ WsWriteQueue \/ WsRecheckCohort
        <5>1. /\ ww.pc \in {"check", "queue", "recheck"}
              /\ ww' = WsIdle \/ ww'.spec = ww.spec
          BY ONLY <4>3, ww \in WsWorker DEF WsCheckCohort, WsWriteQueue, WsRecheckCohort, WsDone, WsWorker
        <5> QED BY <5>1 DEF WsIdle
      <4> QED BY <1>2, <2>3, <4>1, <4>2, <4>3 DEF WsStep
    <3> QED BY <2>1, <3>1, <3>2
  <2> QED BY <2>2, <2>3
<1>3. ASSUME NEW t \in Teams, TeamAddFinalizer(t) \/ TeamLock(t) PROVE CohortOwned'
  BY <1>3 DEF TeamAddFinalizer, TeamLock, TeamObject, TeamWorker, store
<1>4. ASSUME TeamAbort \/ WsLock \/ WsAbort PROVE CohortOwned'
  BY <1>4 DEF TeamAbort, TeamDone, TeamIdle, WsLock, WsAbort, WsDone, WsIdle, WsWorker, store
<1>5. ASSUME NEW w \in Workspaces, \/ WsAddFinalizer(w) \/ WsRead(w) \/ WsCleanupLock(w) \/ Reserve(w) \/ Release(w)
      PROVE  CohortOwned'
  <2>1. UNCHANGED <<team, cohort, tw>> /\ (ww' = ww \/ ww'.pc \in {"wait", "deleteQueue"})
    BY ONLY <1>5 DEF WsAddFinalizer, WsRead, WsCleanupLock, Reserve, Release, WsIdle, store
  <2> QED BY <2>1
<1>6. ASSUME UserStep PROVE CohortOwned'
  <2>1. cohort' = cohort /\ ww' = ww /\ tw'.pc = tw.pc /\ tw'.team = tw.team
    BY <1>6, UserStepFrame
  <2>2. \A t \in Teams : team[t].st \in Finalized => team'[t].st \in Finalized
    <3>1. ASSUME NEW u \in Teams, DeleteTeam(u) \/ \E q \in Quota : CreateTeam(u, q) \/ EditTeam(u, q)
          PROVE  \A t \in Teams : team[t].st \in Finalized => team'[t].st \in Finalized
      <4>1. PICK o : /\ TeamChange(u, o)
                     /\ team[u].st \in {"live", "deleting"} => o.st \in {"live", "deleting"}
        BY <3>1, TeamChangeShape
      <4>2. team' = [team EXCEPT ![u] = o]
        BY <4>1 DEF TeamChange
      <4>3. \A t \in Teams : team'[t] = IF t = u THEN o ELSE team[t]
        BY <4>2
      <4> QED BY <4>1, <4>3
    <3>2. ASSUME ~ \E u \in Teams : DeleteTeam(u) \/ \E q \in Quota : CreateTeam(u, q) \/ EditTeam(u, q)
          PROVE  team' = team
      BY <1>6, <3>2 DEF UserStep, DeleteWs, CreateWs, EditWs, WsChange
    <3> QED BY <3>1, <3>2
  <2> QED BY <2>1, <2>2
<1>7. ASSUME UNCHANGED vars PROVE CohortOwned'
  BY <1>7 DEF vars
<1> QED
  <2> HIDE DEF TypeOK, MembershipInv, LockDiscipline, TeamKnowledge, WsKnowledge, MembershipIntact,
            CapacityInv, CohortOwned, InCohort, Finalized
  <2> QED BY <1>1, <1>2, <1>3, <1>4, <1>5, <1>6, <1>7 DEF Next

\* What the reconciler has validated still holds at its write.
LEMMA FitsStep ==
    ASSUME TypeOK, TypeOK', MembershipInv, BudgetInv, CapacityInv, [Next]_vars
    PROVE  WriteFits'
<1>0. LockDiscipline /\ WriteFits
  BY DEF MembershipInv, CapacityInv
<1>a. ASSUME cohort' = cohort, tw' = tw,
             tw.pc # "idle" => team'[tw.team].quota = team[tw.team].quota,
             tw.pc # "idle" => \A t \in Teams : \A w \in Workspaces : Held(w, t)' <= Held(w, t)
      PROVE  WriteFits'
  <2>1. tw.pc \in {"check", "write"} /\ tw.fresh =>
           \/ tw'.shared < cohort'[tw'.team].nominal
           \/ SumOver(AppliedBeside(tw.team, tw.quota))' <= Capacity
    BY <1>0, <1>a, WriteFitsFrame
  <2> QED BY <1>0, <1>a, <2>1 DEF WriteFits
<1>b. ASSUME cq' = cq PROVE \A t \in Teams : \A w \in Workspaces : Held(w, t)' <= Held(w, t)
  <2>1. \A t, w : w \in Workspaces => Held(w, t)' = Held(w, t) /\ Held(w, t) \in Nat
    BY <1>b, HeldType DEF Held, InCohort
  <2> QED BY <2>1
<1>c. ASSUME tw'.pc \notin {"validate", "check", "write"} \/ ~tw'.fresh PROVE WriteFits'
  BY <1>c DEF WriteFits
<1>1. ASSUME TeamStep PROVE WriteFits'
  <2>0. tw.team \in Teams /\ tw \in TeamWorker
    BY <1>0, <1>1, TeamStepLock DEF LockDiscipline, TypeOK
  <2>1. CASE TeamValidate
    <3> DEFINE n == SharedTeamQuota(tw.team, tw.quota, ws)
    <3>1. CASE ReportTeamStatus(FALSE)
      BY <1>c, <3>1 DEF ReportTeamStatus, TeamDone, TeamIdle
    <3>2. CASE ~ReportTeamStatus(FALSE)
      <4>1. /\ tw.pc = "validate" /\ tw' = [tw EXCEPT !.pc = "check", !.shared = n]
            /\ UNCHANGED <<team, cohort, cq>> /\ CapacityFits(tw.team, tw.quota) /\ GuaranteesFit(n)
        BY ONLY <2>1, <3>2 DEF TeamValidate
      <4>2. tw.fresh => n < cohort[tw.team].nominal \/ SumOver(AppliedBeside(tw.team, tw.quota)) <= Capacity
        BY <4>1, Validated
      <4> HIDE DEF n
      <4>3. tw'.pc = "check" /\ tw'.fresh = tw.fresh /\ tw'.team = tw.team /\ tw'.quota = tw.quota /\ tw'.shared = n
        BY <2>0, <4>1 DEF TeamWorker
      <4>4. \A u \in Teams : AppliedTeamAllocation(u)' = AppliedTeamAllocation(u)
        BY <4>1 DEF AppliedTeamAllocation, SumOver, Units, Held, InCohort
      <4>5. AppliedBeside(tw.team, tw.quota)' = AppliedBeside(tw.team, tw.quota)
        BY <4>3, <4>4 DEF AppliedBeside
      <4>6. SumOver(AppliedBeside(tw.team, tw.quota))' = SumOver(AppliedBeside(tw.team, tw.quota))
        BY <4>5 DEF SumOver, Units
      <4> QED BY <1>0, <4>1, <4>2, <4>3, <4>6 DEF WriteFits
    <3> QED BY <3>1, <3>2
  <2>2. CASE TeamCheckCohort
    <3>1. CASE ReportTeamStatus(FALSE)
      BY <1>c, <3>1 DEF ReportTeamStatus, TeamDone, TeamIdle
    <3>2. CASE ~ReportTeamStatus(FALSE)
      <4>1. tw.pc = "check" /\ tw' = [tw EXCEPT !.pc = "write"] /\ UNCHANGED <<team, cohort, cq>>
        BY ONLY <2>2, <3>2 DEF TeamCheckCohort
      <4>2. tw'.pc = "write" /\ tw'.fresh = tw.fresh /\ tw'.team = tw.team /\ tw'.quota = tw.quota /\ tw'.shared = tw.shared
        BY <2>0, <4>1 DEF TeamWorker
      <4>3. tw'.pc \in {"check", "write"} /\ tw'.fresh =>
               \/ tw'.shared < cohort'[tw'.team].nominal
               \/ SumOver(AppliedBeside(tw.team, tw.quota))' <= Capacity
        BY <1>0, <1>b, <4>1, <4>2, WriteFitsFrame
      <4> QED BY <1>0, <4>1, <4>2, <4>3 DEF WriteFits
    <3> QED BY <3>1, <3>2
  <2>3. CASE TeamWriteCohort \/ TeamDeleteCohort
    <3>1. tw'.pc \in {"report", "removeFinalizer"}
      BY <2>0, <2>3 DEF TeamWriteCohort, TeamDeleteCohort, TeamWorker
    <3> QED BY <1>c, <3>1
  <2>4. CASE TeamReportReady \/ TeamFinalize \/ TeamRemoveFinalizer
    <3>1. tw'.pc \in {"idle", "deleteCohort"}
      BY <2>0, <2>4 DEF TeamReportReady, TeamFinalize, TeamRemoveFinalizer, ReportTeamStatus, TeamDone, TeamIdle, TeamWorker
    <3> QED BY <1>c, <3>1
  <2> QED BY <1>1, <2>1, <2>2, <2>3, <2>4 DEF TeamStep
<1>2. ASSUME WsStep \/ WsLock \/ WsAbort PROVE WriteFits'
  <2>1. tw' = tw
    BY ONLY <1>2 DEF WsStep, WsLock, WsAbort, WsGetTeam, WsValidate, WsCheckCohort, WsWriteCohortBefore, WsWriteQueue,
       WsRecheckCohort, WsWriteCohortAfter, WsDeleteQueue, WsRemoveFinalizer, store
  <2>2. CASE WsStep
    <3>1. tw.pc = "idle"
      BY <1>0, <2>2, WsStepLock DEF LockDiscipline
    <3> QED BY <1>c, <2>1, <3>1
  <2>3. CASE WsLock \/ WsAbort
    <3>1. UNCHANGED <<team, cohort, cq>>
      BY ONLY <2>3 DEF WsLock, WsAbort, store
    <3> QED BY <1>a, <1>b, <2>1, <3>1
  <2> QED BY <1>2, <2>2, <2>3
<1>3. ASSUME NEW t \in Teams, TeamAddFinalizer(t) \/ TeamLock(t) PROVE WriteFits'
  <2>1. CASE TeamAddFinalizer(t)
    BY <1>c, <2>1 DEF TeamAddFinalizer
  <2>2. CASE TeamLock(t)
    BY <2>2 DEF TeamLock, WriteFits, store
  <2> QED BY <1>3, <2>1, <2>2
<1>4. ASSUME TeamAbort PROVE WriteFits'
  BY <1>4, <1>c DEF TeamAbort, TeamDone, TeamIdle
<1>5. ASSUME NEW w \in Workspaces, \/ WsAddFinalizer(w) \/ WsRead(w) \/ WsCleanupLock(w)
      PROVE  WriteFits'
  <2>1. UNCHANGED <<team, cohort, cq, tw>>
    BY ONLY <1>5 DEF WsAddFinalizer, WsRead, WsCleanupLock, store
  <2> QED BY <1>a, <1>b, <2>1
<1>6. ASSUME NEW w \in Workspaces, Reserve(w) \/ Release(w) PROVE WriteFits'
  <2>1. UNCHANGED <<team, cohort, tw>>
    BY ONLY <1>6 DEF Reserve, Release
  <2> QED BY <1>a, <1>6, <2>1, KueueGivesBack
<1>7. ASSUME UserStep PROVE WriteFits'
  <2>1. ASSUME NEW t \in Teams, NEW o, TeamChange(t, o) PROVE WriteFits'
    <3>1. CASE tw.team = t
      <4>1. ~tw'.fresh
        BY <2>1, <3>1 DEF TeamChange, TypeOK, TeamWorker
      <4> QED BY <1>c, <4>1
    <3>2. CASE tw.team # t
      <4>1. UNCHANGED <<cohort, cq, tw>> /\ team' = [team EXCEPT ![t] = o]
        BY ONLY <2>1, <3>2 DEF TeamChange, Edit
      <4>2. tw.pc # "idle" => team'[tw.team] = team[tw.team]
        BY <1>0, <3>2, <4>1 DEF LockDiscipline, TypeOK
      <4> QED BY <1>a, <1>b, <4>1, <4>2
    <3> QED BY <3>1, <3>2
  <2>2. ASSUME NEW w \in Workspaces, NEW o, WsChange(w, o) PROVE WriteFits'
    <3>1. UNCHANGED <<team, cohort, cq, tw>>
      BY ONLY <2>2 DEF WsChange, Edit
    <3> QED BY <1>a, <1>b, <3>1
  <2>3. \/ \E t \in Teams : \E o : TeamChange(t, o)
        \/ \E w \in Workspaces : \E o : WsChange(w, o)
    BY <1>7 DEF UserStep, DeleteTeam, CreateTeam, EditTeam, DeleteWs, CreateWs, EditWs
  <2> QED BY <2>1, <2>2, <2>3
<1>8. ASSUME UNCHANGED vars PROVE WriteFits'
  <2>1. UNCHANGED <<team, cohort, cq, tw>>
    BY ONLY <1>8 DEF vars, store
  <2> QED BY <1>a, <1>b, <2>1
<1> QED BY <1>1, <1>2, <1>3, <1>4, <1>5, <1>6, <1>7, <1>8 DEF Next

\* The write itself (reconcileTeamCohort): the team holds no more than its quota
\* afterwards, or less than before, and no other team changes.
LEMMA WriteWithin ==
    ASSUME TypeOK, TypeOK', MembershipInv, BudgetInv, CapacityInv, TeamWriteCohort, tw.fresh
    PROVE  TotalApplied' <= Larger(Capacity, TotalApplied)
<1> DEFINE t == tw.team
           f == [u \in Teams |-> AppliedTeamAllocation(u)']
           now == [u \in Teams |-> AppliedTeamAllocation(u)]
           g == AppliedBeside(t, tw.quota)
<1>0. t \in Teams /\ tw.pc = "write" /\ UNCHANGED cq
  BY DEF TeamWriteCohort, MembershipInv, LockDiscipline
<1>1. cohort' = [cohort EXCEPT ![t] = [up |-> TRUE, nominal |-> tw.shared]]
  BY DEF TeamWriteCohort, WriteCohort
<1>2. cohort'[t].nominal = tw.shared /\ \A u \in Teams : u # t => cohort'[u] = cohort[u]
  BY <1>0, <1>1 DEF TypeOK
<1>3. \A u \in Teams : SumOver(HeldBy(u))' = SumOver(HeldBy(u))
  BY <1>0 DEF SumOver, Units, HeldBy, Held, InCohort
<1>4. tw.shared + SumOver(HeldBy(t)) <= tw.quota
  BY <1>0 DEF BudgetInv, TeamBudget
<1>5. /\ f[t] = tw.shared + SumOver(HeldBy(t)) /\ \A u \in Teams : u # t => f[u] = now[u]
      /\ now[t] = cohort[t].nominal + SumOver(HeldBy(t))
  BY <1>0, <1>2, <1>3, AppliedType, AppliedTypeNext
<1>6. f \in [Teams -> Nat] /\ now \in [Teams -> Nat] /\ g \in [Teams -> Nat] /\ IsFiniteSet(Teams)
  BY AppliedType, AppliedTypeNext
<1>7. TotalApplied' = SumOver(f) /\ TotalApplied = SumOver(now)
  BY DEF TotalApplied, SumOver, Units
<1>8. SumOver(f) \in Nat /\ SumOver(now) \in Nat /\ SumOver(g) \in Nat /\ Capacity \in Nat
  BY <1>6, SumNat, ConstantsAssumption
<1>9. CASE tw.shared < cohort[t].nominal
  <2>1. \A u \in Teams : f[u] <= now[u]
    BY <1>0, <1>5, <1>6, <1>9, AppliedType
  <2> HIDE DEF f, now
  <2>2. SumOver(f) <= SumOver(now)
    BY <1>6, <2>1, SumMonotone
  <2> QED BY <1>7, <1>8, <2>2 DEF Larger
<1>10. CASE SumOver(g) <= Capacity
  <2>1. \A u \in Teams : f[u] <= g[u]
    BY <1>4, <1>5, <1>6 DEF AppliedBeside
  <2> HIDE DEF f, g
  <2>2. SumOver(f) <= SumOver(g)
    BY <1>6, <2>1, SumMonotone
  <2> QED BY <1>7, <1>8, <1>10, <2>2 DEF Larger
<1> QED BY <1>0, <1>9, <1>10 DEF CapacityInv, WriteFits

\* A Cohort write of the TauTeam reconciler takes the applied allocations neither past
\* the discovered capacity nor further past it, although validateTeamCapacity was
\* about an earlier state of all the other teams.
THEOREM CapacitySafe == Spec => TeamWriteWithinCapacity
<1> DEFINE Inv == TypeOK /\ MembershipInv /\ BudgetInv /\ CapacityInv
           Fits == TeamWriteCohort /\ tw.fresh => TotalApplied' <= Larger(Capacity, TotalApplied)
<1>1. Init => Inv
  <2>1. Init => CapacityInv
    BY DEF Init, CapacityInv, CohortOwned, WriteFits, NoCohort, TeamIdle, WsIdle
  <2> QED BY <2>1, InitTypeLock, InitMembership, InitBudget
<1>2. Inv /\ [Next]_vars => Inv'
  BY NextType, NextLock, NextMembership, NextBudget, OwnedStep, FitsStep DEF MembershipInv, CapacityInv
<1>3. Inv /\ Inv' => Fits
  BY WriteWithin
<1>4. Inv /\ [Next]_vars => [Fits]_vars
  BY <1>2, <1>3
<1> HIDE DEF Inv
<1> QED BY <1>1, <1>2, <1>4, PTL DEF Spec, TeamWriteWithinCapacity

=============================================================================
