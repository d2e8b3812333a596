------------------------------ MODULE SharedPool ------------------------------
(***************************************************************************)
(* The shared-quota mode of the tau-core controller (shareTeamQuotas): all *)
(* teams borrow from one platform-owned parent Cohort.  One pass checks    *)
(* every team, workspace, Cohort and queue, creates missing Cohorts, then  *)
(* writes the ClusterQueues one after the other; when anything goes wrong  *)
(* it closes all queues with Kueue's Hold, and a later pass that succeeds  *)
(* opens those that it has closed itself.                                  *)
(*                                                                         *)
(* Passes, team finalization and workspace cleanup hold the same mutex, so *)
(* they are one worker here, whichever reconciler runs them.  Users,       *)
(* operators, Kueue and the inventory change between any two of its steps. *)
(* Quotas are those of one resource/flavor pair.                           *)
(***************************************************************************)
EXTENDS Integers, FiniteSets, FiniteSetsExt, QuotaSums

CONSTANTS
    Teams, Workspaces,  \* names, as numbers: the code goes through them in order
    MaxQuota,           \* bound on spec.quota of a team
    Limits,             \* the borrowing limits a team may have; NoLimit: none given
    NoLimit,
    Supplies,           \* the GPU inventories the nodes may add up to
    Spare,              \* static quota of the parent Cohort
    EditBudget,         \* bound on changes by users, operators and nodes
    FaultBudget         \* bound on failed API calls and controller restarts

ASSUME PoolConstants ==
    /\ IsFiniteSet(Teams) /\ Teams \subseteq Nat
    /\ IsFiniteSet(Workspaces) /\ Workspaces \subseteq Nat
    /\ {MaxQuota, Spare, EditBudget, FaultBudget} \subseteq Nat
    /\ Limits \subseteq Nat \cup {NoLimit} /\ NoLimit \notin Nat
    /\ Supplies \subseteq Nat /\ Supplies # {}

VARIABLES
    team,     \* TauTeam objects: state, spec.quota (nominal and borrowing limit)
    ws,       \* TauWorkspace objects: state, spec.teamRef
    supply,   \* what discoveredPoolInventory adds up
    sound,    \* parent Cohort, node inventory and flavors pass their checks
    cohort,   \* the Cohort of each team
    cq,       \* the ClusterQueue of each workspace
    p,        \* the reconcile that holds the quota mutex
    edits, faults

vars == <<team, ws, supply, sound, cohort, cq, p, edits, faults>>

NoTeam == -1
ObjectState == {"absent", "new", "live", "deleting"}  \* new: no cleanup finalizer yet
Policy == {"None", "Hold", "HoldAndDrain"}            \* spec.stopPolicy

NoTeamObject == [st |-> "absent", quota |-> 0, limit |-> NoLimit]
NoWsObject == [st |-> "absent", team |-> NoTeam]
NoCohort == [up |-> FALSE, nominal |-> 0, limit |-> NoLimit]

\* ours: the annotation that marks the controller's own Hold.
\* touched: an operator has set the stop policy (history, read by no action).
NoQueue == [up |-> FALSE, team |-> NoTeam, ceiling |-> 0, policy |-> "None",
            ours |-> FALSE, touched |-> FALSE, resv |-> 0, term |-> FALSE]

\* A reconcile: what it has listed (teams, wss) and read (supply, resv), what it
\* has computed (pool, create, keep), what is left to do, and what it finalizes (obj).
NoTeams == [t \in Teams |-> NoTeamObject]
NoWorkspaces == [w \in Workspaces |-> NoWsObject]
Idle == [pc |-> "idle", teams |-> NoTeams, wss |-> NoWorkspaces, supply |-> 0, pool |-> 0, create |-> FALSE,
         todo |-> {}, keep |-> "None", resv |-> 0, obj |-> NoTeam]

TeamObject == [st : ObjectState, quota : 0..MaxQuota, limit : Limits \cup {NoLimit}]
WsObject == [st : ObjectState, team : Teams \cup {NoTeam}]
CohortObject == [up : BOOLEAN, nominal : 0..MaxQuota, limit : Limits \cup {NoLimit}]
QueueObject == [up : BOOLEAN, team : Teams \cup {NoTeam}, ceiling : Nat, policy : Policy,
                ours : BOOLEAN, touched : BOOLEAN, resv : Nat, term : BOOLEAN]
Pass == [pc : {"idle", "workspaces", "check", "cohorts", "read", "write", "holdList", "hold",
               "deleteCohort", "dropTeam", "deleteQueue", "dropWs"},
         teams : [Teams -> TeamObject], wss : [Workspaces -> WsObject], supply : Nat, pool : Nat,
         create : BOOLEAN, todo : SUBSET (Teams \cup Workspaces), keep : Policy, resv : Nat,
         obj : Teams \cup Workspaces \cup {NoTeam}]

TypeOK ==
    /\ team \in [Teams -> TeamObject]
    /\ ws \in [Workspaces -> WsObject]
    /\ supply \in Supplies /\ sound \in BOOLEAN
    /\ cohort \in [Teams -> CohortObject] /\ cq \in [Workspaces -> QueueObject] /\ p \in Pass
    /\ edits \in 0..EditBudget /\ faults \in 0..FaultBudget

\* The quota of the whole tree: static spare and the teams' guarantees.
Tree == Spare + SumOver([t \in Teams |-> cohort[t].nominal])

-----------------------------------------------------------------------------
(* applySharedTeamPool *)

\* Deleting teams without a Cohort no longer take part.
Listed(view) == {t \in Teams : /\ view[t].st # "absent"
                               /\ ~(view[t].st = "deleting" /\ ~cohort[t].up)}

Selected(view) == {w \in Workspaces : view[w].st # "absent"}

Allocated(view) == Spare + SumOver([t \in Listed(view) |-> view[t].quota])

\* Every team that is still there has its finalizer.
TeamsAcceptable(view) == \A t \in Teams : view[t].st # "new"

\* A workspace needs a listed team and its finalizer; a deleting team keeps
\* its workspaces but gets no others.
WorkspaceAcceptable(w, view, teams) ==
    /\ view[w].st # "new"
    /\ view[w].team \in Listed(teams)
    /\ teams[view[w].team].st = "deleting" => cq[w].up /\ cq[w].team = view[w].team

\* validateSharedPoolConflicts, for the objects TauGrid owns: no queue and no
\* Cohort hangs in the tree without an owner that is listed.
NoStrangers(view, teams) ==
    /\ \A w \in Workspaces : cq[w].up => w \in Selected(view) /\ cq[w].team \in Listed(teams)
    /\ \A t \in Teams : cohort[t].up => t \in Listed(teams)

TeamReserved(t, view) ==
    SumOver([w \in {x \in Selected(view) : view[x].team = t} |-> cq[w].resv])

\* No team falls below its reservations, the reservations fit the supply.
ReservationsFit(view, teams, available) ==
    /\ \A t \in Listed(teams) : teams[t].limit # NoLimit =>
           TeamReserved(t, view) <= teams[t].quota + teams[t].limit
    /\ SumOver([w \in Selected(view) |-> cq[w].resv]) <= available

GuaranteesFit(teams, available) == Allocated(teams) <= available

\* A pass begins with any TauTeam that is not deleting, and with any
\* TauWorkspace that is neither and has a team.
Triggered == \/ \E t \in Teams : team[t].st = "live"
             \/ \E w \in Workspaces : ws[w].st = "live" /\ team[ws[w].team].st # "absent"

\* Up to the list of teams: parent, inventory, flavors, teams and their Cohorts.
ListTeams ==
    /\ p.pc = "idle" /\ Triggered
    /\ p' = IF sound /\ TeamsAcceptable(team)
            THEN [Idle EXCEPT !.pc = "workspaces", !.teams = team, !.supply = supply]
            ELSE [Idle EXCEPT !.pc = "holdList"]
    /\ UNCHANGED <<team, ws, supply, sound, cohort, cq, edits, faults>>

ListWorkspaces ==
    /\ p.pc = "workspaces"
    /\ p' = IF /\ \A w \in Selected(ws) : WorkspaceAcceptable(w, ws, p.teams)
               /\ NoStrangers(ws, p.teams)
            THEN [p EXCEPT !.pc = "check", !.wss = ws]
            ELSE [Idle EXCEPT !.pc = "holdList"]
    /\ UNCHANGED <<team, ws, supply, sound, cohort, cq, edits, faults>>

\* Cohorts are created only while no workspace has a queue.
AllowCreate(wss) == \A w \in Selected(wss) : ~cq[w].up

CheckPool ==
    /\ p.pc = "check"
    /\ p' = IF ReservationsFit(p.wss, p.teams, p.supply) /\ GuaranteesFit(p.teams, p.supply)
            THEN [p EXCEPT !.pc = "cohorts", !.todo = Listed(p.teams), !.pool = Allocated(p.teams),
                           !.create = AllowCreate(p.wss)]
            ELSE [Idle EXCEPT !.pc = "holdList"]
    /\ UNCHANGED <<team, ws, supply, sound, cohort, cq, edits, faults>>

\* Mutant: an established Cohort is left as it is, whatever the team asks for.
EstablishedAnyway(t) == cohort[t].up

\* An established Cohort is never changed: it has to be the desired one.
Established(t) == cohort[t] = [up |-> TRUE, nominal |-> p.teams[t].quota, limit |-> p.teams[t].limit]

\* applySharedTeamCohort, for the next team by name.
ApplyCohort ==
    /\ p.pc = "cohorts" /\ p.todo # {}
    /\ LET t == Min(p.todo)
           next == [p EXCEPT !.todo = @ \ {t}]
       IN \/ /\ team[t] = p.teams[t] /\ cohort[t].up /\ Established(t)
             /\ p' = next /\ UNCHANGED cohort
          \/ /\ team[t] = p.teams[t] /\ ~cohort[t].up /\ p.create
             /\ cohort' = [cohort EXCEPT ![t] = [up |-> TRUE, nominal |-> p.teams[t].quota,
                                                 limit |-> p.teams[t].limit]]
             /\ p' = next
          \/ /\ \/ team[t] # p.teams[t]
                \/ cohort[t].up /\ ~Established(t)
                \/ ~cohort[t].up /\ ~p.create
             /\ p' = [Idle EXCEPT !.pc = "holdList"] /\ UNCHANGED cohort
    /\ UNCHANGED <<team, ws, supply, sound, cq, edits, faults>>

CohortsDone ==
    /\ p.pc = "cohorts" /\ p.todo = {}
    /\ p' = [p EXCEPT !.pc = "read", !.teams = NoTeams, !.todo = Selected(p.wss), !.create = FALSE]
    /\ UNCHANGED <<team, ws, supply, sound, cohort, cq, edits, faults>>

\* Mutant: the cleared policy is left as an empty string, which Kueue does not know.
EmptyPolicy(q) == IF q.ours /\ q.policy = "Hold" THEN "" ELSE q.policy

\* The stop policy that the new queue is going to have: the controller's own
\* Hold goes, anything else stays.
KeptPolicy(q) == IF q.ours /\ q.policy = "Hold" THEN "None" ELSE q.policy

\* recoverDeletingWorkspaceHold: a deleting workspace only gets the controller's
\* Hold cleared, in one update.
RecoverHold ==
    /\ p.pc = "read" /\ p.todo # {}
    /\ LET w == Min(p.todo) IN
          /\ ws[w].team = p.wss[w].team /\ ws[w].st = "deleting"
          /\ cq' = [cq EXCEPT ![w].policy = KeptPolicy(cq[w]), ![w].ours = FALSE]
          /\ p' = [p EXCEPT !.todo = @ \ {w}]
    /\ UNCHANGED <<team, ws, supply, sound, cohort, edits, faults>>

\* reconcileCapacityWorkspace, first read, for the next workspace by name.
ReadQueue ==
    /\ p.pc = "read" /\ p.todo # {}
    /\ LET w == Min(p.todo) IN
          \/ /\ ws[w].team # p.wss[w].team
             /\ p' = [Idle EXCEPT !.pc = "holdList"]
          \/ /\ ws[w].team = p.wss[w].team /\ ws[w].st = "live"
             /\ p' = [p EXCEPT !.pc = "write", !.keep = KeptPolicy(cq[w]), !.resv = cq[w].resv]
    /\ UNCHANGED <<team, ws, supply, sound, cohort, cq, edits, faults>>

\* Borrowed work keeps its place when the pool has shrunk.
Ceiling == Max({p.pool, p.resv})

\* validateClusterQueueQuotaReduction, at the second read.
ReductionAllowed(w, ceiling) == cq[w].resv <= ceiling

\* reconcileManagedUnstructuredWithReader with the queue computed from the first read.
WriteQueue ==
    /\ p.pc = "write"
    /\ LET w == Min(p.todo)
           ceiling == Ceiling
       IN \/ /\ ReductionAllowed(w, ceiling)
             /\ cq' = [cq EXCEPT ![w] = [@ EXCEPT !.up = TRUE, !.team = p.wss[w].team, !.ceiling = ceiling,
                                                  !.policy = p.keep, !.ours = FALSE]]
             /\ p' = [p EXCEPT !.pc = "read", !.todo = @ \ {w}, !.keep = "None", !.resv = 0]
          \/ /\ ~ReductionAllowed(w, ceiling)
             /\ p' = [Idle EXCEPT !.pc = "holdList"] /\ UNCHANGED cq
    /\ UNCHANGED <<team, ws, supply, sound, cohort, edits, faults>>

PassDone ==
    /\ p.pc = "read" /\ p.todo = {}
    /\ p' = Idle
    /\ UNCHANGED <<team, ws, supply, sound, cohort, cq, edits, faults>>

-----------------------------------------------------------------------------
(* holdSharedTeamQueues *)

HoldList ==
    /\ p.pc = "holdList"
    /\ p' = [Idle EXCEPT !.pc = "hold", !.todo = Selected(ws)]
    /\ UNCHANGED <<team, ws, supply, sound, cohort, cq, edits, faults>>

\* Mutant: a Hold without the annotation.
HeldUnmarked(q) == IF q.up /\ q.policy = "None" THEN [q EXCEPT !.policy = "Hold"] ELSE q

\* A queue that is not stopped yet is stopped and marked; the others stay as they are.
HeldQueue(q) == IF q.up /\ q.policy = "None" THEN [q EXCEPT !.policy = "Hold", !.ours = TRUE] ELSE q

HoldNext ==
    /\ p.pc = "hold" /\ p.todo # {}
    /\ LET w == Min(p.todo) IN
          /\ cq' = [cq EXCEPT ![w] = HeldQueue(@)]
          /\ p' = [p EXCEPT !.todo = @ \ {w}]
    /\ UNCHANGED <<team, ws, supply, sound, cohort, edits, faults>>

HoldDone ==
    /\ p.pc = "hold" /\ p.todo = {}
    /\ p' = Idle
    /\ UNCHANGED <<team, ws, supply, sound, cohort, cq, edits, faults>>

-----------------------------------------------------------------------------
(* finalizeTeam and the cleanup of a workspace *)

\* Mutant: only spec.teamRef is looked at, not the queue's Cohort.
UnreferencedOnly(t) == \A w \in Workspaces : ~(ws[w].st # "absent" /\ ws[w].team = t)

Unused(t) == \A w \in Workspaces : /\ ~(ws[w].st # "absent" /\ ws[w].team = t)
                                   /\ ~(cq[w].up /\ cq[w].team = t)

FinalizeTeam(t) ==
    /\ p.pc = "idle" /\ team[t].st = "deleting" /\ Unused(t)
    /\ p' = [Idle EXCEPT !.pc = "deleteCohort", !.obj = t]
    /\ UNCHANGED <<team, ws, supply, sound, cohort, cq, edits, faults>>

DeleteCohort ==
    /\ p.pc = "deleteCohort"
    /\ cohort' = [cohort EXCEPT ![p.obj] = NoCohort]
    /\ p' = [p EXCEPT !.pc = "dropTeam"]
    /\ UNCHANGED <<team, ws, supply, sound, cq, edits, faults>>

DropTeamFinalizer ==
    /\ p.pc = "dropTeam"
    /\ team' = [team EXCEPT ![p.obj] = NoTeamObject]
    /\ p' = Idle
    /\ UNCHANGED <<ws, supply, sound, cohort, cq, edits, faults>>

\* cleanupWorkspaceAccess, up to the queue: the namespace's work has to be over.
CleanupWs(w) ==
    /\ p.pc = "idle" /\ ws[w].st = "deleting" /\ cq[w].resv = 0
    /\ p' = [Idle EXCEPT !.pc = "deleteQueue", !.obj = w]
    /\ UNCHANGED <<team, ws, supply, sound, cohort, cq, edits, faults>>

\* cleanupWorkspaceClusterQueue: deleted with preconditions; Kueue's own finalizer
\* keeps the queue while it has reservations, and the reconcile returns.
DeleteQueue ==
    /\ p.pc = "deleteQueue"
    /\ \/ /\ cq[p.obj].resv = 0
          /\ cq' = [cq EXCEPT ![p.obj] = NoQueue]
          /\ p' = [p EXCEPT !.pc = "dropWs"]
       \/ /\ cq[p.obj].resv > 0
          /\ cq' = [cq EXCEPT ![p.obj].term = TRUE]
          /\ p' = Idle
    /\ UNCHANGED <<team, ws, supply, sound, cohort, edits, faults>>

DropWsFinalizer ==
    /\ p.pc = "dropWs"
    /\ ws' = [ws EXCEPT ![p.obj] = NoWsObject]
    /\ p' = Idle
    /\ UNCHANGED <<team, supply, sound, cohort, cq, edits, faults>>

-----------------------------------------------------------------------------
(* Failures *)

InPass == {"workspaces", "check", "cohorts", "read", "write"}

\* An API call of a pass fails: everything is put on hold.
CallFails ==
    /\ p.pc \in InPass /\ faults < FaultBudget
    /\ faults' = faults + 1
    /\ p' = [Idle EXCEPT !.pc = "holdList"]
    /\ UNCHANGED <<team, ws, supply, sound, cohort, cq, edits>>

\* One queue cannot be put on hold: the others still are.
HoldFails ==
    /\ p.pc = "hold" /\ p.todo # {} /\ faults < FaultBudget
    /\ faults' = faults + 1
    /\ p' = [p EXCEPT !.todo = @ \ {Min(@)}]
    /\ UNCHANGED <<team, ws, supply, sound, cohort, cq, edits>>

\* A finalizer or cleanup call fails, the list for the hold does, or the process stops.
Abort ==
    /\ p.pc # "idle" /\ faults < FaultBudget
    /\ faults' = faults + 1
    /\ p' = Idle
    /\ UNCHANGED <<team, ws, supply, sound, cohort, cq, edits>>

-----------------------------------------------------------------------------
(* Users, operators, nodes and Kueue *)

Edit == edits < EditBudget /\ edits' = edits + 1

CreateTeam(t, q, l) ==
    /\ Edit /\ team[t].st = "absent"
    /\ team' = [team EXCEPT ![t] = [st |-> "new", quota |-> q, limit |-> l]]
    /\ UNCHANGED <<ws, supply, sound, cohort, cq, p, faults>>

EditTeam(t, q) ==
    /\ Edit /\ team[t].st \in {"new", "live"} /\ q # team[t].quota
    /\ team' = [team EXCEPT ![t].quota = q]
    /\ UNCHANGED <<ws, supply, sound, cohort, cq, p, faults>>

DeleteTeam(t) ==
    /\ Edit /\ team[t].st \in {"new", "live"}
    /\ team' = [team EXCEPT ![t] = IF @.st = "new" THEN NoTeamObject ELSE [@ EXCEPT !.st = "deleting"]]
    /\ UNCHANGED <<ws, supply, sound, cohort, cq, p, faults>>

\* Reconcile, before it takes the mutex.
AddTeamFinalizer(t) ==
    /\ team[t].st = "new"
    /\ team' = [team EXCEPT ![t].st = "live"]
    /\ UNCHANGED <<ws, supply, sound, cohort, cq, p, edits, faults>>

CreateWs(w, t) ==
    /\ Edit /\ ws[w].st = "absent"
    /\ ws' = [ws EXCEPT ![w] = [st |-> "new", team |-> t]]
    /\ UNCHANGED <<team, supply, sound, cohort, cq, p, faults>>

MoveWs(w, t) ==
    /\ Edit /\ ws[w].st = "live" /\ t # ws[w].team
    /\ ws' = [ws EXCEPT ![w].team = t]
    /\ UNCHANGED <<team, supply, sound, cohort, cq, p, faults>>

DeleteWs(w) ==
    /\ Edit /\ ws[w].st \in {"new", "live"}
    /\ ws' = [ws EXCEPT ![w] = IF @.st = "new" THEN NoWsObject ELSE [@ EXCEPT !.st = "deleting"]]
    /\ UNCHANGED <<team, supply, sound, cohort, cq, p, faults>>

AddWsFinalizer(w) ==
    /\ ws[w].st = "new"
    /\ ws' = [ws EXCEPT ![w].st = "live"]
    /\ UNCHANGED <<team, supply, sound, cohort, cq, p, edits, faults>>

\* Nodes come and go.
ChangeSupply(n) ==
    /\ Edit /\ n # supply
    /\ supply' = n
    /\ UNCHANGED <<team, ws, sound, cohort, cq, p, faults>>

\* An unclassified node, a relabelled parent: such things come and are repaired.
ChangeSound ==
    /\ Edit
    /\ sound' = ~sound
    /\ UNCHANGED <<team, ws, supply, cohort, cq, p, faults>>

\* An operator sets a stop policy; he leaves the annotation alone.
SetPolicy(w, policy) ==
    /\ Edit /\ cq[w].up /\ cq[w].policy # policy
    /\ cq' = [cq EXCEPT ![w].policy = policy, ![w].touched = TRUE]
    /\ UNCHANGED <<team, ws, supply, sound, cohort, p, faults>>

TeamUsage(t) == SumOver([w \in {x \in Workspaces : cq[x].up /\ cq[x].team = t} |-> cq[w].resv])

\* Kueue admits work: an open queue, within its ceiling, the team's maximum and the tree.
Reserve(w) ==
    /\ cq[w].up /\ ~cq[w].term /\ cq[w].policy = "None"
    /\ cq[w].resv < cq[w].ceiling
    /\ LET c == cohort[cq[w].team]
       IN  c.limit # NoLimit => TeamUsage(cq[w].team) < c.nominal + c.limit
    /\ SumOver([x \in Workspaces |-> cq[x].resv]) < Tree
    /\ cq' = [cq EXCEPT ![w].resv = @ + 1]
    /\ UNCHANGED <<team, ws, supply, sound, cohort, p, edits, faults>>

\* Work ends; a terminating queue goes with its last reservation.
Release(w) ==
    /\ cq[w].resv > 0
    /\ cq' = [cq EXCEPT ![w] = IF @.resv = 1 /\ @.term THEN NoQueue ELSE [@ EXCEPT !.resv = cq[w].resv - 1]]
    /\ UNCHANGED <<team, ws, supply, sound, cohort, p, edits, faults>>

-----------------------------------------------------------------------------
Init ==
    /\ team = [t \in Teams |-> NoTeamObject]
    /\ ws = [w \in Workspaces |-> NoWsObject]
    /\ supply \in Supplies /\ sound = TRUE
    /\ cohort = [t \in Teams |-> NoCohort]
    /\ cq = [w \in Workspaces |-> NoQueue]
    /\ p = Idle /\ edits = 0 /\ faults = 0

PassStep == \/ ListWorkspaces \/ CheckPool \/ ApplyCohort \/ CohortsDone
            \/ RecoverHold \/ ReadQueue \/ WriteQueue \/ PassDone
HoldStep == HoldList \/ HoldNext \/ HoldDone
CleanupStep == DeleteCohort \/ DropTeamFinalizer \/ DeleteQueue \/ DropWsFinalizer

Environment ==
    \/ \E t \in Teams, q \in 0..MaxQuota : EditTeam(t, q) \/ \E l \in Limits : CreateTeam(t, q, l)
    \/ \E t \in Teams : DeleteTeam(t)
    \/ \E w \in Workspaces, t \in Teams : CreateWs(w, t) \/ MoveWs(w, t)
    \/ \E w \in Workspaces : DeleteWs(w) \/ Reserve(w) \/ Release(w)
    \/ \E w \in Workspaces, policy \in Policy : SetPolicy(w, policy)
    \/ \E n \in Supplies : ChangeSupply(n)
    \/ ChangeSound

Next ==
    \/ ListTeams \/ PassStep \/ HoldStep
    \/ \E t \in Teams : FinalizeTeam(t) \/ AddTeamFinalizer(t)
    \/ \E w \in Workspaces : CleanupWs(w) \/ AddWsFinalizer(w)
    \/ CleanupStep
    \/ CallFails \/ HoldFails \/ Abort
    \/ Environment

\* A reconcile that has begun goes on; watches and the periodic requeue bring
\* every object back, and Go's mutex is starvation-free.
Fairness ==
    /\ WF_vars(PassStep) /\ WF_vars(HoldStep) /\ WF_vars(CleanupStep)
    /\ SF_vars(ListTeams)
    /\ \A t \in Teams : SF_vars(FinalizeTeam(t)) /\ WF_vars(AddTeamFinalizer(t))
    /\ \A w \in Workspaces : SF_vars(CleanupWs(w)) /\ WF_vars(AddWsFinalizer(w))

Spec == Init /\ [][Next]_vars /\ Fairness

-----------------------------------------------------------------------------
(* Properties *)

Open(q) == q.up /\ q.policy = "None"

\* "The sum of the explicit parent spare and team guarantees is validated
\* against discovered supply" (workspace.md): whenever the controller opens a
\* queue to admission (creates it, or takes its own Hold off), the tree that
\* is really in Kueue fits the inventory this pass has read, although the
\* validation was about specifications that users have edited since.
OpensWithinSupply ==
    [][\A w \in Workspaces : /\ p.pc \in {"read", "write"}
                             /\ ~Open(cq[w]) /\ Open(cq'[w])
                             => Tree <= p.supply]_vars

\* A queue never points to a Cohort that does not exist: finalizeTeam takes no
\* Cohort away from a queue that is still moving, and no pass moves a queue into a
\* team that has been finalized.
TreeIntact == \A w \in Workspaces : cq[w].up => cohort[cq[w].team].up

\* A pass over what is there now would succeed.
Consistent ==
    /\ sound /\ TeamsAcceptable(team)
    /\ \A w \in Selected(ws) : WorkspaceAcceptable(w, ws, team)
    /\ NoStrangers(ws, team)
    /\ ReservationsFit(ws, team, supply) /\ GuaranteesFit(team, supply)
    /\ \A t \in Listed(team) :
          \/ cohort[t] = [up |-> TRUE, nominal |-> team[t].quota, limit |-> team[t].limit]
          \/ ~cohort[t].up /\ \A w \in Workspaces : ~cq[w].up

\* Holds follow the state of the pool: once nothing is wrong any more, every live
\* workspace gets an open queue and the queue of a deleting one is open too, unless
\* an operator has stopped it; while something stays wrong, every queue ends up
\* stopped, also when a pass or a hold has failed half way.
HoldsFollow ==
    /\ <>[](Triggered /\ Consistent) =>
          <>[](\A w \in Workspaces : ws[w].st = "live" \/ cq[w].up => Open(cq[w]) \/ cq[w].touched)
    /\ <>[](Triggered /\ ~Consistent) => <>[](\A w \in Workspaces : ~Open(cq[w]))
=============================================================================
