------------------------------ MODULE TeamQuota ------------------------------
(***************************************************************************)
(* The explicit-quota mode of the tau-core controller: how the TauTeam and *)
(* TauWorkspace reconcilers keep a two-level Kueue hierarchy (one Cohort   *)
(* per team, one ClusterQueue per workspace) in step with the quotas that  *)
(* people write into the TauTeam and TauWorkspace objects.                 *)
(*                                                                         *)
(* Two reconciler goroutines of one process (leader election keeps it the  *)
(* only one) share the quota mutex.  Users edit the objects and Kueue      *)
(* reserves quota at any moment, so what a reconciler read may be stale    *)
(* when it writes; any API call may fail, and the process may stop between *)
(* two writes.  Quotas are those of one resource/flavor pair: the code     *)
(* treats the pairs independently.                                         *)
(***************************************************************************)
EXTENDS Integers, FiniteSets, QuotaSums

CONSTANTS
    Teams, Workspaces,  \* names of TauTeam and TauWorkspace objects
    NoTeam, NoWorkspace,
    MaxQuota,           \* bound on the quotas users write
    MaxBorrow,          \* bound on workspace borrowing limits
    Capacity,           \* TauCluster.status.discoveredCapacity
    EditBudget,         \* bound on the number of user edits
    FaultBudget,        \* bound on failed API calls and controller restarts
    RacingTeamEdits,    \* may a team be edited while the reconciler works on it?
    Reserving           \* does Kueue reserve quota?

ASSUME ConstantsAssumption ==
    /\ IsFiniteSet(Teams) /\ IsFiniteSet(Workspaces)
    /\ NoTeam \notin Teams
    /\ NoWorkspace \notin Workspaces
    /\ {MaxQuota, MaxBorrow, Capacity, EditBudget, FaultBudget} \subseteq Nat
    /\ {RacingTeamEdits, Reserving} \subseteq BOOLEAN

VARIABLES
    team,     \* the TauTeam objects: state, spec.quota, Ready for this generation
    ws,       \* the TauWorkspace objects: state, spec.teamRef, spec.quota
    cohort,   \* the Cohort of each team
    cq,       \* the ClusterQueue of each workspace, with its reservations
    lock,     \* the "capacity-pool" mutex, which every caller of lockTeamQuota takes
    tw,       \* the TauTeam reconciler's goroutine
    ww,       \* the TauWorkspace reconciler's goroutine
    granted,  \* history: the team quota that the last Cohort write distributed
    edits, faults

vars == <<team, ws, cohort, cq, lock, tw, ww, granted, edits, faults>>
store == <<team, ws, cohort, cq, granted>>

Quota == 0..MaxQuota
ObjectState == {"absent", "new", "live", "deleting"}  \* new: no cleanup finalizer yet
TeamObject == [st : ObjectState, quota : Quota, ready : BOOLEAN]
WsObject == [st : ObjectState, team : Teams \cup {NoTeam}, quota : Quota, borrow : 0..MaxBorrow]
CohortObject == [up : BOOLEAN, nominal : Nat]
QueueObject == [up : BOOLEAN, term : BOOLEAN, cohort : Teams \cup {NoTeam}, nominal : Quota,
                borrow : 0..MaxBorrow, resv : Nat]  \* term: deleted, held by Kueue's finalizer

NoTeamObject == [st |-> "absent", quota |-> 0, ready |-> FALSE]
NoWsObject == [st |-> "absent", team |-> NoTeam, quota |-> 0, borrow |-> 0]
NoCohort == [up |-> FALSE, nominal |-> 0]
NoQueue == [up |-> FALSE, term |-> FALSE, cohort |-> NoTeam, nominal |-> 0, borrow |-> 0, resv |-> 0]

\* A team goroutine holds the object it read (team, quota), whether that
\* object is still the stored one (fresh: a resourceVersion comparison), and
\* the Cohort quota it computed.
TeamWorker ==
    [pc : {"idle", "validate", "check", "write", "report",
           "finalize", "deleteCohort", "removeFinalizer"},
     team : Teams \cup {NoTeam}, quota : Quota, fresh : BOOLEAN, shared : Nat]

TeamIdle == [pc |-> "idle", team |-> NoTeam, quota |-> 0, fresh |-> TRUE, shared |-> 0]

\* A workspace goroutine holds the workspace and the team it read.
WsWorker ==
    [pc : {"idle", "wait", "team", "validate", "check", "cohortBefore", "queue",
           "recheck", "cohortAfter", "deleteQueue", "removeFinalizer"},
     ws : Workspaces \cup {NoWorkspace}, spec : WsObject, tquota : Quota,
     tready : BOOLEAN, tdeleting : BOOLEAN, shared : Nat]

WsIdle == [pc |-> "idle", ws |-> NoWorkspace, spec |-> NoWsObject,
           tquota |-> 0, tready |-> FALSE, tdeleting |-> FALSE, shared |-> 0]

Larger(a, b) == IF a > b THEN a ELSE b

InCohort(w, t) == cq[w].up /\ cq[w].cohort = t
Maximum(q) == q.nominal + q.borrow

-----------------------------------------------------------------------------
(* Accounting, as read from the API server *)

\* The guarantee of workspace w's ClusterQueue, if it belongs to team t's Cohort.
Held(w, t) == IF InCohort(w, t) THEN cq[w].nominal ELSE 0

\* Team t's allocation as it stands in Kueue.
AppliedTeamAllocation(t) ==
    cohort[t].nominal + SumOver([w \in Workspaces |-> Held(w, t)])

\* Mutant: only what the workspace asks for.
RequestedOnly(t, w, view) == IF view[w].st # "absent" /\ view[w].team = t THEN view[w].quota ELSE 0

\* What workspace w costs team t: the larger of what it asks for and what its
\* ClusterQueue still holds.  view gives the workspace objects.
Effective(t, w, view) ==
    Larger(IF view[w].st # "absent" /\ view[w].team = t THEN view[w].quota ELSE 0,
           Held(w, t))

Guarantees(t, view) == SumOver([w \in Workspaces |-> Effective(t, w, view)])

\* sharedTeamQuota: what is left for the Cohort; an error when negative.
SharedTeamQuota(t, quota, view) == quota - Guarantees(t, view)

\* Mutant: nobody looks at the sign.
AnyShare(shared) == TRUE

GuaranteesFit(shared) == shared >= 0

\* validateTeamReservations: the team's quota covers what Kueue has reserved.
ReservationsFit(t, quota, additional) ==
    additional + SumOver([w \in Workspaces |-> IF InCohort(w, t) THEN cq[w].resv ELSE 0]) <= quota

\* Mutant: applied allocations that teams have still to give back are forgotten.
RequestsFit(t, quota) ==
    SumOver([u \in Teams |-> IF team[u].st = "absent" THEN 0 ELSE team[u].quota]) <= Capacity

\* Mutant: a pure reduction is charged like any other change.
ReductionsCharged(t, quota) ==
    SumOver([u \in Teams |-> IF team[u].st = "absent" THEN 0
                             ELSE Larger(team[u].quota, AppliedTeamAllocation(u))]) <= Capacity

\* validateTeamCapacity: every team charged with the larger of its request
\* and its applied allocation; a pure reduction is charged by requests alone.
CapacityFits(t, quota) ==
    LET reductionOnly == quota < AppliedTeamAllocation(t)
        charge(u) == IF team[u].st = "absent" THEN 0
                     ELSE IF reductionOnly THEN team[u].quota
                     ELSE Larger(team[u].quota, AppliedTeamAllocation(u))
    IN  SumOver([u \in Teams |-> charge(u)]) <= Capacity

\* workspaceQueueReductionOnly: the desired queue asks for nothing new.
QueueReductionOnly(w, spec) ==
    /\ InCohort(w, spec.team)
    /\ spec.quota <= cq[w].nominal
    /\ Maximum([nominal |-> spec.quota, borrow |-> spec.borrow]) <= Maximum(cq[w])

-----------------------------------------------------------------------------
(* Initially a manifest of teams and workspaces has been applied and no     *)
(* controller has run: no finalizers, no statuses, no Kueue objects.        *)

Init ==
    /\ team \in [Teams -> {[st |-> "new", quota |-> q, ready |-> FALSE] : q \in Quota}]
    /\ ws \in [Workspaces -> {[st |-> "new", team |-> t, quota |-> q, borrow |-> b] :
                                 t \in Teams, q \in Quota, b \in 0..MaxBorrow}]
    /\ cohort = [t \in Teams |-> NoCohort]
    /\ cq = [w \in Workspaces |-> NoQueue]
    /\ lock = "free"
    /\ tw = TeamIdle
    /\ ww = WsIdle
    /\ granted = [t \in Teams |-> 0]
    /\ edits = 0
    /\ faults = 0

-----------------------------------------------------------------------------
(* The TauTeam reconciler *)

TeamDone == lock' = "free" /\ tw' = TeamIdle

\* reportTeamStatus: a status update, refused when the team has changed since
\* it was read.
ReportTeamStatus(ready) ==
    /\ team' = IF tw.fresh THEN [team EXCEPT ![tw.team].ready = ready] ELSE team
    /\ TeamDone

TeamAddFinalizer(t) ==
    /\ tw.pc = "idle"
    /\ team[t].st = "new"
    /\ team' = [team EXCEPT ![t].st = "live"]
    /\ UNCHANGED <<ws, cohort, cq, lock, tw, ww, granted, edits, faults>>

\* lockTeamQuota, then the Get that refreshes the team under the lock.
TeamLock(t) ==
    /\ tw.pc = "idle"
    /\ lock = "free"
    /\ team[t].st \in {"live", "deleting"}
    /\ lock' = "team"
    /\ tw' = [pc |-> IF team[t].st = "live" THEN "validate" ELSE "finalize",
              team |-> t, quota |-> team[t].quota, fresh |-> TRUE, shared |-> 0]
    /\ UNCHANGED <<store, ww, edits, faults>>

TeamValidate ==
    /\ tw.pc = "validate"
    /\ LET shared == SharedTeamQuota(tw.team, tw.quota, ws)
       IN  IF /\ ReservationsFit(tw.team, tw.quota, 0)
              /\ CapacityFits(tw.team, tw.quota)
              /\ GuaranteesFit(shared)
           THEN /\ tw' = [tw EXCEPT !.pc = "check", !.shared = shared]
                /\ UNCHANGED <<team, lock>>
           ELSE ReportTeamStatus(FALSE)
    /\ UNCHANGED <<ws, cohort, cq, ww, granted, edits, faults>>

\* reconcileTeamCohort up to its write: the accounting snapshot must not be
\* stale, and the reservations are read again.
TeamCheckCohort ==
    /\ tw.pc = "check"
    /\ IF /\ tw.shared = SharedTeamQuota(tw.team, tw.quota, ws)
          /\ ReservationsFit(tw.team, tw.quota, 0)
       THEN tw' = [tw EXCEPT !.pc = "write"] /\ UNCHANGED <<team, lock>>
       ELSE ReportTeamStatus(FALSE)
    /\ UNCHANGED <<ws, cohort, cq, ww, granted, edits, faults>>

WriteCohort(t, quota, shared) ==
    /\ cohort' = [cohort EXCEPT ![t] = [up |-> TRUE, nominal |-> shared]]
    /\ granted' = [granted EXCEPT ![t] = quota]

TeamWriteCohort ==
    /\ tw.pc = "write"
    /\ WriteCohort(tw.team, tw.quota, tw.shared)
    /\ tw' = [tw EXCEPT !.pc = "report"]
    /\ UNCHANGED <<team, ws, cq, lock, ww, edits, faults>>

TeamReportReady ==
    /\ tw.pc = "report"
    /\ ReportTeamStatus(TRUE)
    /\ UNCHANGED <<ws, cohort, cq, ww, granted, edits, faults>>

\* Mutant: a workspace on its way to another team is overlooked.
Referenced(t) == \E w \in Workspaces : ws[w].st # "absent" /\ ws[w].team = t

\* finalizeTeam: nothing may reference the team or still use its Cohort.
TeamInUse(t) == \E w \in Workspaces :
    ws[w].st # "absent" /\ (ws[w].team = t \/ InCohort(w, t))

TeamFinalize ==
    /\ tw.pc = "finalize"
    /\ IF TeamInUse(tw.team)
       THEN ReportTeamStatus(FALSE)
       ELSE tw' = [tw EXCEPT !.pc = "deleteCohort"] /\ UNCHANGED <<team, lock>>
    /\ UNCHANGED <<ws, cohort, cq, ww, granted, edits, faults>>

TeamDeleteCohort ==
    /\ tw.pc = "deleteCohort"
    /\ cohort' = [cohort EXCEPT ![tw.team] = NoCohort]
    /\ granted' = [granted EXCEPT ![tw.team] = 0]
    /\ tw' = [tw EXCEPT !.pc = "removeFinalizer"]
    /\ UNCHANGED <<team, ws, cq, lock, ww, edits, faults>>

TeamRemoveFinalizer ==
    /\ tw.pc = "removeFinalizer"
    /\ team' = IF tw.fresh THEN [team EXCEPT ![tw.team] = NoTeamObject] ELSE team
    /\ TeamDone
    /\ UNCHANGED <<ws, cohort, cq, ww, granted, edits, faults>>

\* An API call fails and Reconcile returns its error, or the process stops.
TeamAbort ==
    /\ tw.pc # "idle"
    /\ faults < FaultBudget
    /\ faults' = faults + 1
    /\ TeamDone
    /\ UNCHANGED <<store, ww, edits>>

TeamStep ==
    \/ TeamValidate \/ TeamCheckCohort \/ TeamWriteCohort \/ TeamReportReady
    \/ TeamFinalize \/ TeamDeleteCohort \/ TeamRemoveFinalizer

-----------------------------------------------------------------------------
(* The TauWorkspace reconciler *)

WsDone == lock' = "free" /\ ww' = WsIdle

WsAddFinalizer(w) ==
    /\ ww.pc = "idle"
    /\ ws[w].st = "new"
    /\ ws' = [ws EXCEPT ![w].st = "live"]
    /\ UNCHANGED <<team, cohort, cq, lock, tw, ww, granted, edits, faults>>

\* Reconcile reads the workspace; namespace and RBAC work follow before the
\* quota lock is taken.  Without a teamRef there is no quota to manage.
WsRead(w) ==
    /\ ww.pc = "idle"
    /\ ws[w].st = "live" /\ ws[w].team # NoTeam
    /\ ww' = [WsIdle EXCEPT !.pc = "wait", !.ws = w, !.spec = ws[w]]
    /\ UNCHANGED <<store, lock, tw, edits, faults>>

\* Under the lock the workspace is read again: a deleting one is an error, a
\* changed spec starts over (errWorkspaceSpecChanged).
WsUnchanged == ws[ww.ws] = ww.spec

WsLock ==
    /\ ww.pc = "wait"
    /\ lock = "free"
    /\ IF WsUnchanged
       THEN lock' = "workspace" /\ ww' = [ww EXCEPT !.pc = "team"]
       ELSE WsDone
    /\ UNCHANGED <<store, tw, edits, faults>>

WsGetTeam ==
    /\ ww.pc = "team"
    /\ LET t == team[ww.spec.team]
       IN  IF t.st = "absent"
           THEN WsDone
           ELSE /\ ww' = [ww EXCEPT !.pc = "validate", !.tquota = t.quota,
                              !.tready = t.ready, !.tdeleting = (t.st = "deleting")]
                /\ UNCHANGED lock
    /\ UNCHANGED <<store, tw, edits, faults>>

\* The workspace objects as sharedTeamQuotaForWorkspace sees them: the
\* proposed workspace replaces the stored one.
Proposed == [ws EXCEPT ![ww.ws] = ww.spec]

\* A queue that asks for nothing new needs neither capacity nor a Ready,
\* non-deleting team.
WsAdmitted(reduction) ==
    \/ reduction
    \/ ~ww.tdeleting /\ CapacityFits(ww.spec.team, ww.tquota) /\ ww.tready

WsValidate ==
    /\ ww.pc = "validate"
    /\ LET w == ww.ws
           t == ww.spec.team
           migrating == cq[w].up /\ cq[w].cohort # t
           reduction == QueueReductionOnly(w, ww.spec)
           shared == SharedTeamQuota(t, ww.tquota, Proposed)
       IN  IF \/ migrating /\ ~ReservationsFit(t, ww.tquota, cq[w].resv)
              \/ ~WsAdmitted(reduction)
              \/ ~GuaranteesFit(shared) /\ ~reduction
           THEN WsDone
           ELSE /\ UNCHANGED lock
                /\ ww' = IF reduction /\ (~ww.tready \/ ~GuaranteesFit(shared))
                         THEN [ww EXCEPT !.pc = "queue"]
                         ELSE [ww EXCEPT !.pc = "check", !.shared = shared]
    /\ UNCHANGED <<store, tw, edits, faults>>

\* The first reconcileTeamCohort up to its write.
WsCheckCohort ==
    /\ ww.pc = "check"
    /\ IF /\ ww.shared = SharedTeamQuota(ww.spec.team, ww.tquota, ws)
          /\ ReservationsFit(ww.spec.team, ww.tquota, 0)
       THEN ww' = [ww EXCEPT !.pc = "cohortBefore"] /\ UNCHANGED lock
       ELSE WsDone
    /\ UNCHANGED <<store, tw, edits, faults>>

WsWriteCohortBefore ==
    /\ ww.pc = "cohortBefore"
    /\ WriteCohort(ww.spec.team, ww.tquota, ww.shared)
    /\ ww' = [ww EXCEPT !.pc = "queue"]
    /\ UNCHANGED <<team, ws, cq, lock, tw, edits, faults>>

\* reconcileManagedUnstructured on the ClusterQueue.  The update carries the
\* resourceVersion of the object whose reservations were checked, so check
\* and write are one step.
DesiredQueue(w, spec) ==
    [up |-> TRUE, term |-> cq[w].term, cohort |-> spec.team, nominal |-> spec.quota,
     borrow |-> spec.borrow, resv |-> cq[w].resv]

\* Mutant: the reservations are compared with the old maximum.
OldMaximumAllows(w, desired) == cq[w].resv <= Maximum(cq[w])

QueueUpdateAllowed(w, desired) ==
    desired = cq[w] \/ cq[w].resv <= Maximum(desired)

WsWriteQueue ==
    /\ ww.pc = "queue"
    /\ LET desired == DesiredQueue(ww.ws, ww.spec)
       IN  IF QueueUpdateAllowed(ww.ws, desired)
           THEN /\ cq' = [cq EXCEPT ![ww.ws] = desired]
                /\ ww' = [ww EXCEPT !.pc = "recheck"]
                /\ UNCHANGED lock
           ELSE WsDone /\ UNCHANGED cq
    /\ UNCHANGED <<team, ws, cohort, tw, granted, edits, faults>>

\* Shared quota is computed again with the new queue in place, and the second
\* reconcileTeamCohort runs up to its write.
WsRecheckCohort ==
    /\ ww.pc = "recheck"
    /\ LET shared == SharedTeamQuota(ww.spec.team, ww.tquota, Proposed)
       IN  IF /\ GuaranteesFit(shared)
              /\ shared = SharedTeamQuota(ww.spec.team, ww.tquota, ws)
              /\ ReservationsFit(ww.spec.team, ww.tquota, 0)
           THEN ww' = [ww EXCEPT !.pc = "cohortAfter", !.shared = shared] /\ UNCHANGED lock
           ELSE WsDone
    /\ UNCHANGED <<store, tw, edits, faults>>

WsWriteCohortAfter ==
    /\ ww.pc = "cohortAfter"
    /\ WriteCohort(ww.spec.team, ww.tquota, ww.shared)
    /\ WsDone
    /\ UNCHANGED <<team, ws, cq, tw, edits, faults>>

\* Deletion: the drain check, then the ClusterQueue, then the finalizer.
WsCleanupLock(w) ==
    /\ ww.pc = "idle"
    /\ lock = "free"
    /\ ws[w].st = "deleting"
    /\ cq[w].resv = 0
    /\ lock' = "workspace"
    /\ ww' = [WsIdle EXCEPT !.pc = "deleteQueue", !.ws = w, !.spec = ws[w]]
    /\ UNCHANGED <<store, tw, edits, faults>>

\* Kueue's own finalizer keeps a queue that has reserved quota since the
\* drain check: the delete then only marks it, and the cleanup starts over.
WsDeleteQueue ==
    /\ ww.pc = "deleteQueue"
    /\ IF cq[ww.ws].resv = 0
       THEN /\ cq' = [cq EXCEPT ![ww.ws] = NoQueue]
            /\ ww' = [ww EXCEPT !.pc = "removeFinalizer"]
            /\ UNCHANGED lock
       ELSE /\ cq' = [cq EXCEPT ![ww.ws].term = TRUE]
            /\ WsDone
    /\ UNCHANGED <<team, ws, cohort, tw, granted, edits, faults>>

WsRemoveFinalizer ==
    /\ ww.pc = "removeFinalizer"
    /\ ws' = IF WsUnchanged THEN [ws EXCEPT ![ww.ws] = NoWsObject] ELSE ws
    /\ WsDone
    /\ UNCHANGED <<team, cohort, cq, tw, granted, edits, faults>>

\* A failed call or a restart; before the lock is taken there is none to free.
WsAbort ==
    /\ ww.pc # "idle"
    /\ faults < FaultBudget
    /\ faults' = faults + 1
    /\ ww' = WsIdle
    /\ lock' = IF ww.pc = "wait" THEN lock ELSE "free"
    /\ UNCHANGED <<store, tw, edits>>

WsStep ==
    \/ WsGetTeam \/ WsValidate \/ WsCheckCohort \/ WsWriteCohortBefore \/ WsWriteQueue
    \/ WsRecheckCohort \/ WsWriteCohortAfter \/ WsDeleteQueue \/ WsRemoveFinalizer


-----------------------------------------------------------------------------
(* Kueue: a queue reserves quota within its nominal quota, and beyond it by *)
(* borrowing from its Cohort's own quota (queues lend nothing).             *)

Borrowed(w, resv) == IF resv > cq[w].nominal THEN resv - cq[w].nominal ELSE 0

Reserve(w) ==
    /\ Reserving
    /\ cq[w].up /\ ~cq[w].term
    /\ cq[w].resv + 1 <= Maximum(cq[w])
    /\ LET t == cq[w].cohort
           resv(v) == IF v = w THEN cq[v].resv + 1 ELSE cq[v].resv
       IN  \/ cq[w].resv + 1 <= cq[w].nominal
           \/ SumOver([v \in Workspaces |-> IF InCohort(v, t) THEN Borrowed(v, resv(v)) ELSE 0])
                 <= cohort[t].nominal
    /\ cq' = [cq EXCEPT ![w].resv = @ + 1]
    /\ UNCHANGED <<team, ws, cohort, lock, tw, ww, granted, edits, faults>>

\* A deleted queue disappears with its last reservation.
Release(w) ==
    /\ cq[w].resv > 0
    /\ cq' = [cq EXCEPT ![w] = IF cq[w].term /\ cq[w].resv = 1
                               THEN NoQueue ELSE [cq[w] EXCEPT !.resv = @ - 1]]
    /\ UNCHANGED <<team, ws, cohort, lock, tw, ww, granted, edits, faults>>

-----------------------------------------------------------------------------
(* Users, at any moment *)

Edit ==
    /\ edits < EditBudget
    /\ edits' = edits + 1
    /\ UNCHANGED <<cohort, cq, lock, ww, granted, faults>>

\* A change of the team t: its status is of an older generation, and a
\* reconciler that has read it holds a stale object.
TeamChange(t, object) ==
    /\ Edit
    /\ RacingTeamEdits \/ tw.team # t
    /\ team' = [team EXCEPT ![t] = object]
    /\ tw' = IF tw.team = t THEN [tw EXCEPT !.fresh = FALSE] ELSE tw
    /\ UNCHANGED ws

CreateTeam(t, q) ==
    /\ team[t].st = "absent"
    /\ TeamChange(t, [st |-> "new", quota |-> q, ready |-> FALSE])

EditTeam(t, q) ==
    /\ team[t].st # "absent" /\ team[t].quota # q
    /\ TeamChange(t, [team[t] EXCEPT !.quota = q, !.ready = FALSE])

\* Without a finalizer the object is gone at once.
DeleteTeam(t) ==
    /\ team[t].st \in {"new", "live"}
    /\ TeamChange(t, IF team[t].st = "new" THEN NoTeamObject
                     ELSE [team[t] EXCEPT !.st = "deleting", !.ready = FALSE])

WsChange(w, object) ==
    /\ Edit
    /\ ws' = [ws EXCEPT ![w] = object]
    /\ UNCHANGED <<team, tw>>

CreateWs(w, t, q, b) ==
    /\ ws[w].st = "absent"
    /\ WsChange(w, [st |-> "new", team |-> t, quota |-> q, borrow |-> b])

EditWs(w, t, q, b) ==
    /\ ws[w].st # "absent"
    /\ ws[w] # [ws[w] EXCEPT !.team = t, !.quota = q, !.borrow = b]
    /\ WsChange(w, [ws[w] EXCEPT !.team = t, !.quota = q, !.borrow = b])

DeleteWs(w) ==
    /\ ws[w].st \in {"new", "live"}
    /\ WsChange(w, IF ws[w].st = "new" THEN NoWsObject ELSE [ws[w] EXCEPT !.st = "deleting"])

UserStep ==
    \/ \E t \in Teams : DeleteTeam(t) \/ \E q \in Quota : CreateTeam(t, q) \/ EditTeam(t, q)
    \/ \E w \in Workspaces :
          \/ DeleteWs(w)
          \/ \E t \in Teams \cup {NoTeam}, q \in Quota, b \in 0..MaxBorrow :
                CreateWs(w, t, q, b) \/ EditWs(w, t, q, b)

-----------------------------------------------------------------------------
Next ==
    \/ TeamStep \/ TeamAbort
    \/ \E t \in Teams : TeamAddFinalizer(t) \/ TeamLock(t)
    \/ WsStep \/ WsLock \/ WsAbort
    \/ \E w \in Workspaces : WsAddFinalizer(w) \/ WsRead(w) \/ WsCleanupLock(w)
    \/ \E w \in Workspaces : Reserve(w) \/ Release(w)
    \/ UserStep

Spec == Init /\ [][Next]_vars

\* The work queue hands object t, or w, to its reconciler.
TeamDispatch(t) == TeamAddFinalizer(t) \/ TeamLock(t)
WsDispatch(w) == WsAddFinalizer(w) \/ WsRead(w) \/ WsCleanupLock(w)

\* A goroutine that is not waiting keeps running; the work queue hands out
\* every object again and again (failures are retried, successes requeued
\* after five minutes), and Go's mutex lets no waiter starve.
Fairness ==
    /\ WF_vars(TeamStep) /\ WF_vars(WsStep)
    /\ SF_vars(WsLock)
    /\ \A t \in Teams : SF_vars(TeamDispatch(t))
    /\ \A w \in Workspaces : SF_vars(WsDispatch(w))

FairSpec == Spec /\ Fairness

-----------------------------------------------------------------------------
(* Properties *)

\* Every variable keeps its type; in particular no Cohort ever gets a
\* negative quota (sharedTeamQuotaForWorkspace returns an error instead).
TypeOK ==
    /\ team \in [Teams -> TeamObject]
    /\ ws \in [Workspaces -> WsObject]
    /\ cohort \in [Teams -> CohortObject]
    /\ cq \in [Workspaces -> QueueObject]
    /\ lock \in {"free", "team", "workspace"}
    /\ tw \in TeamWorker
    /\ ww \in WsWorker
    /\ granted \in [Teams -> Quota]
    /\ edits \in 0..EditBudget
    /\ faults \in 0..FaultBudget

\* A team's Cohort and its ClusterQueues together never hold more than one
\* team quota that somebody wrote: the order of the Cohort and ClusterQueue
\* writes in reconcileWorkspaceClusterQueue never counts quota twice, whatever
\* users change and wherever the reconcilers are interrupted.
BudgetHeld == \A t \in Teams : AppliedTeamAllocation(t) <= granted[t]

\* No ClusterQueue is shrunk below what Kueue has reserved in it
\* (validateClusterQueueQuotaReduction), although reservations go on meanwhile.
ReservationWithinMaximum == \A w \in Workspaces : cq[w].resv <= Maximum(cq[w])

\* While a ClusterQueue exists, so do its workspace, the team it belongs to
\* and that team's Cohort: finalizeTeam and the workspace cleanup never leave
\* an orphan, across migrations, deletions and failed calls.
MembershipIntact ==
    \A w \in Workspaces : cq[w].up =>
        /\ ws[w].st \in {"live", "deleting"}
        /\ cq[w].cohort \in Teams
        /\ team[cq[w].cohort].st \in {"live", "deleting"}
        /\ cohort[cq[w].cohort].up

TotalApplied == SumOver([t \in Teams |-> AppliedTeamAllocation(t)])

\* validateTeamCapacity: "team allocations exceed discovered capacity".
CapacityRespected == TotalApplied <= Capacity

\* A Cohort write of the TauTeam reconciler never takes the applied
\* allocations past the discovered capacity, nor further past it, unless an edit
\* of this team has overtaken it: whatever happens to the other teams between
\* validateTeamCapacity and the write.
TeamWriteWithinCapacity ==
    [][TeamWriteCohort /\ tw.fresh => TotalApplied' <= Larger(Capacity, TotalApplied)]_vars

\* The quotas can be satisfied: every object is settled, no workspace has to
\* change teams, and guarantees and capacity add up.
Wanted(t, w) == IF ws[w].st = "live" /\ ws[w].team = t THEN ws[w].quota ELSE 0

Feasible ==
    /\ \A t \in Teams : team[t].st \in {"absent", "live"}
    /\ \A w \in Workspaces :
          /\ ws[w].st \in {"absent", "live"}
          /\ ws[w].st = "live" => ws[w].team \in Teams /\ team[ws[w].team].st = "live"
          /\ cq[w].up => cq[w].cohort = ws[w].team
    /\ \A t \in Teams : SumOver([w \in Workspaces |-> Wanted(t, w)]) <= team[t].quota
    /\ SumOver([t \in Teams |-> team[t].quota]) <= Capacity

\* Kueue holds exactly what the objects ask for.
Settled ==
    /\ \A t \in Teams : team[t].st = "live" =>
          /\ team[t].ready
          /\ cohort[t].up /\ AppliedTeamAllocation(t) = team[t].quota
    /\ \A w \in Workspaces : ws[w].st = "live" =>
          /\ InCohort(w, ws[w].team)
          /\ cq[w].nominal = ws[w].quota /\ cq[w].borrow = ws[w].borrow

\* Once the edits stop, quotas that can be satisfied are: no order of the
\* reconcilers leaves teams and workspaces blocking one another.
Converges == <>[](Feasible => Settled)

-----------------------------------------------------------------------------
(* The strengthenings that make the invariants inductive *)

\* Whoever is past its lockTeamQuota holds the mutex, and works on an object.
LockDiscipline ==
    /\ lock = "team" <=> tw.pc # "idle"
    /\ lock = "workspace" <=> ww.pc \notin {"idle", "wait"}
    /\ tw.pc # "idle" => tw.team \in Teams
    /\ ww.pc # "idle" => ww.ws \in Workspaces
    /\ ww.pc \notin {"idle", "deleteQueue", "removeFinalizer"} =>
          ww.spec.team \in Teams /\ ww.spec.st = "live"

Finalized == {"live", "deleting"}

\* What each goroutine knows of the objects it works on.
TeamKnowledge ==
    /\ \A t \in Teams : team[t].ready => team[t].st = "live"
    /\ tw.pc # "idle" => team[tw.team].st \in Finalized
    /\ tw.pc \in {"validate", "check", "write", "report"} /\ tw.fresh => team[tw.team].st = "live"
    /\ tw.pc \in {"deleteCohort", "removeFinalizer"} =>
          \A w \in Workspaces : ~InCohort(w, tw.team)

WsKnowledge ==
    /\ \A w \in Workspaces : ~cq[w].up => cq[w] = NoQueue
    /\ \A w \in Workspaces : cq[w].term => ws[w].st = "deleting"
    /\ ww.pc # "idle" => ws[ww.ws].st \in Finalized
    /\ ww.pc \in {"deleteQueue", "removeFinalizer"} => ws[ww.ws].st = "deleting"
    /\ ww.pc = "removeFinalizer" => ~cq[ww.ws].up
    /\ ww.pc \in {"team", "validate", "check", "cohortBefore", "queue"} => ~cq[ww.ws].term
    /\ ww.pc \in {"validate", "check", "cohortBefore", "queue"} /\ ww.tready =>
          team[ww.spec.team].st \in Finalized
    /\ ww.pc \in {"check", "cohortBefore", "queue"} =>
          ww.tready \/ InCohort(ww.ws, ww.spec.team)
    /\ ww.pc = "queue" => InCohort(ww.ws, ww.spec.team) \/ cohort[ww.spec.team].up

MembershipInv == LockDiscipline /\ TeamKnowledge /\ WsKnowledge /\ MembershipIntact

\* What team t's queues hold, now and once the workspace goroutine's queue is written.
HeldBy(t) == [w \in Workspaces |-> Held(w, t)]
HeldNext == [w \in Workspaces |->
    IF w = ww.ws THEN Larger(ww.spec.quota, Held(w, ww.spec.team)) ELSE Held(w, ww.spec.team)]

\* The Cohort quota a goroutine is about to write leaves room for them.
TeamBudget ==
    tw.pc \in {"check", "write"} => tw.shared + SumOver(HeldBy(tw.team)) <= tw.quota

WsBudget ==
    /\ ww.pc \in {"check", "cohortBefore"} => ww.shared + SumOver(HeldNext) <= ww.tquota
    /\ ww.pc = "queue" => cohort[ww.spec.team].nominal + SumOver(HeldNext) <= granted[ww.spec.team]
    /\ ww.pc = "cohortAfter" => ww.shared + SumOver(HeldBy(ww.spec.team)) <= ww.tquota

BudgetInv == BudgetHeld /\ TeamBudget /\ WsBudget

\* A team that is not there, or has no finalizer yet, has no quota in Kueue.
CohortOwned ==
    /\ \A t \in Teams : team[t].st \notin Finalized => cohort[t].nominal = 0
    /\ tw.pc = "removeFinalizer" => cohort[tw.team].nominal = 0
    /\ ww.pc \in {"check", "cohortBefore", "queue", "recheck", "cohortAfter"} =>
          team[ww.spec.team].st \in Finalized

\* What was validated still holds at the write: it lowers the Cohort's quota, or the
\* team's quota has room beside what the other teams hold.
AppliedBeside(t, quota) ==
    [u \in Teams |-> IF u = t THEN quota ELSE AppliedTeamAllocation(u)]

WriteFits ==
    /\ tw.pc \in {"validate", "check", "write"} /\ tw.fresh => team[tw.team].quota = tw.quota
    /\ tw.pc \in {"check", "write"} /\ tw.fresh =>
          \/ tw.shared < cohort[tw.team].nominal
          \/ SumOver(AppliedBeside(tw.team, tw.quota)) <= Capacity

CapacityInv == CohortOwned /\ WriteFits

=============================================================================
