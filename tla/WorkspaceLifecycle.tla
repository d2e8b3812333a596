-------------------------- MODULE WorkspaceLifecycle --------------------------
(***************************************************************************)
(* The TauWorkspace reconciler of tau-core: how a workspace gets its       *)
(* namespace, its researcher RoleBinding, its ClusterQueue and LocalQueue, *)
(* how all of them move when spec.target.namespace changes, and how they   *)
(* are cleaned up before the finalizer goes.                               *)
(*                                                                         *)
(* The controller runs one reconcile at a time; each of its API calls that *)
(* reads or writes shared state is a step, and users, researchers, Kueue   *)
(* and failures come between any two.  An update carries the resource      *)
(* version of the read before it, so that a read and the conflict-checked  *)
(* write that follows it are one step.  Ownership is the workspace label   *)
(* and the UID of the TauWorkspace: a recreated workspace has a new UID.   *)
(***************************************************************************)
EXTENDS Naturals, FiniteSets

CONSTANTS
    Names,        \* TauWorkspace names
    Namespaces,
    Existing,     \* the namespaces that are there, without labels, at the start
    None,
    MaxUid,       \* bound on the workspaces ever created
    EditBudget,   \* bound on changes by users
    WorkBudget,   \* bound on submissions
    FaultBudget   \* bound on failed API calls and controller restarts

ASSUME LifecycleConstants ==
    /\ IsFiniteSet(Names) /\ IsFiniteSet(Namespaces)
    /\ None \notin Names \cup Namespaces /\ Existing \subseteq Namespaces
    /\ {MaxUid, EditBudget, WorkBudget, FaultBudget} \subseteq Nat

VARIABLES
    ws,       \* TauWorkspace objects
    ns,       \* Namespaces: workspace label and owner UID, queue activation labels
    rb,       \* the researcher RoleBinding of each namespace
    lq,       \* owner UID of the LocalQueue of a workspace in a namespace; 0: none
    cq,       \* owner UID of the ClusterQueue of a workspace; 0: none
    work,     \* unfinished work in the namespaces, by the LocalQueue it names
    p,        \* the reconcile in progress
    created, edits, jobs, faults

vars == <<ws, ns, rb, lq, cq, work, p, created, edits, jobs, faults>>

Uid == 0..MaxUid
Binding == [ws : Names \cup {None}, uid : Uid]
NoBinding == [ws |-> None, uid |-> 0]

\* adopt: the namespace (by UID) that an administrator lets the workspace adopt;
\* resolved: status.target.resolvedNamespace.
Workspace == [st : {"absent", "new", "live", "deleting"}, uid : Uid, target : Namespaces \cup {None},
              adopt : Namespaces \cup {None}, resolved : Namespaces \cup {None}]
NoWorkspace == [st |-> "absent", uid |-> 0, target |-> None, adopt |-> None, resolved |-> None]

\* obj: the workspace as read at the start; nsReady, ready, clean: what went well so far.
Idle == [pc |-> "idle", w |-> None, obj |-> NoWorkspace, nsReady |-> FALSE, ready |-> FALSE, clean |-> TRUE]

SyncPc == {"namespace", "rbac", "clusterQueue", "localQueue", "identity", "oldAccess", "oldDrain",
           "staleQueues", "activate", "dropQueues", "dropAccess", "dropMetadata", "status"}
CleanupPc == {"revoke", "drain", "deleteLocal", "deleteCluster", "deleteMetadata", "finalizer"}

Pass == [pc : {"idle"} \cup SyncPc \cup CleanupPc, w : Names \cup {None}, obj : Workspace,
         nsReady : BOOLEAN, ready : BOOLEAN, clean : BOOLEAN]

TypeOK ==
    /\ ws \in [Names -> Workspace]
    /\ ns \in [Namespaces -> [up : BOOLEAN, ws : Names \cup {None}, uid : Uid, routed : BOOLEAN]]
    /\ rb \in [Namespaces -> Binding]
    /\ lq \in [Namespaces -> [Names -> Uid]] /\ cq \in [Names -> Uid]
    /\ work \subseteq Namespaces \X Names
    /\ p \in Pass
    /\ created \in Uid /\ edits \in 0..EditBudget /\ jobs \in 0..WorkBudget /\ faults \in 0..FaultBudget

Target == p.obj.target

\* What belongs to the workspace that is reconciled, by label and UID.
Own(b) == b.ws = p.w /\ b.uid = p.obj.uid

-----------------------------------------------------------------------------
(* syncWorkspace, on a workspace that is live *)

Start(w) ==
    /\ p.pc = "idle" /\ ws[w].st = "live"
    /\ p' = [Idle EXCEPT !.pc = "namespace", !.w = w, !.obj = ws[w]]
    /\ UNCHANGED <<ws, ns, rb, lq, cq, work, created, edits, jobs, faults>>

\* Mutant: adoption evidence is enough, the owner is not looked up.
AdoptableByEvidence(n) ==
    LET explicit == p.obj.adopt = n
    IN  /\ p.obj.adopt \in {None, n}
        /\ ns[n].uid # p.obj.uid \/ ns[n].ws \notin {None, p.w} => explicit

\* A namespace is free for the workspace when it has its UID, or with explicit
\* adoption evidence once the workspace it is labelled for does not exist.
Claimable(n) ==
    LET explicit == p.obj.adopt = n
    IN  /\ p.obj.adopt \in {None, n}
        /\ ns[n].ws \notin {None, p.w} => explicit /\ ws[ns[n].ws].st = "absent"
        /\ ns[n].uid # p.obj.uid => explicit

\* reconcileNamespace: created, or claimed and relabelled, or refused.
Claimed(n, activate) ==
    [ns EXCEPT ![n] = [up |-> TRUE, ws |-> p.w, uid |-> p.obj.uid, routed |-> @.routed \/ activate]]

Namespace ==
    /\ p.pc = "namespace"
    /\ \/ /\ ~ns[Target].up \/ Claimable(Target)
          /\ ns' = Claimed(Target, FALSE)
          /\ p' = [p EXCEPT !.pc = "rbac", !.nsReady = TRUE, !.ready = TRUE]
       \/ /\ ns[Target].up /\ ~Claimable(Target)
          /\ p' = [p EXCEPT !.pc = "identity"] /\ UNCHANGED ns
    /\ UNCHANGED <<ws, rb, lq, cq, work, created, edits, jobs, faults>>

\* reconcileRBAC: a RoleBinding of somebody else is not touched.
Rbac ==
    /\ p.pc = "rbac"
    /\ \/ /\ rb[Target] = NoBinding \/ Own(rb[Target])
          /\ rb' = [rb EXCEPT ![Target] = [ws |-> p.w, uid |-> p.obj.uid]]
          /\ p' = [p EXCEPT !.pc = "clusterQueue"]
       \/ /\ rb[Target] # NoBinding /\ ~Own(rb[Target])
          /\ p' = [p EXCEPT !.pc = "clusterQueue", !.ready = FALSE] /\ UNCHANGED rb
    /\ UNCHANGED <<ws, ns, lq, cq, work, created, edits, jobs, faults>>

\* reconcileWorkspaceClusterQueue, under the quota lock, on a fresh read: a
\* changed specification starts over, a deletion or a foreign queue is an error.
ClusterQueue ==
    /\ p.pc = "clusterQueue"
    /\ LET now == ws[p.w] IN
          \/ /\ now.st = "live" /\ now.target # Target
             /\ p' = Idle /\ UNCHANGED cq
          \/ /\ now.st = "live" /\ now.target = Target /\ cq[p.w] \in {0, p.obj.uid}
             /\ cq' = [cq EXCEPT ![p.w] = p.obj.uid]
             /\ p' = [p EXCEPT !.pc = "localQueue"]
          \/ /\ now.st # "live" \/ (now.target = Target /\ cq[p.w] \notin {0, p.obj.uid})
             /\ p' = [p EXCEPT !.pc = "identity", !.ready = FALSE] /\ UNCHANGED cq
    /\ UNCHANGED <<ws, ns, rb, lq, work, created, edits, jobs, faults>>

LocalQueue ==
    /\ p.pc = "localQueue"
    /\ LET q == lq[Target][p.w] IN
          /\ lq' = IF q = 0 THEN [lq EXCEPT ![Target][p.w] = p.obj.uid] ELSE lq
          /\ p' = [p EXCEPT !.pc = "identity", !.ready = @ /\ q \in {0, p.obj.uid}]
    /\ UNCHANGED <<ws, ns, rb, cq, work, created, edits, jobs, faults>>

Revoked == [n \in Namespaces |-> IF Own(rb[n]) THEN NoBinding ELSE rb[n]]

\* cleanupOwnedNamespaceWorkloadIdentity: while an obsolete identity cannot be
\* revoked, the researcher loses every binding.
Identity ==
    /\ p.pc = "identity"
    /\ \/ /\ p' = [p EXCEPT !.pc = "oldAccess"] /\ UNCHANGED <<rb, faults>>
       \/ /\ faults < FaultBudget /\ faults' = faults + 1
          /\ rb' = Revoked
          /\ p' = [p EXCEPT !.pc = "oldDrain", !.ready = FALSE]
    /\ UNCHANGED <<ws, ns, lq, cq, work, created, edits, jobs>>

\* reconcileOwnedNamespaceResearcherAccess: the namespaces still labelled for the
\* workspace; only in the one of the status a missing RoleBinding comes back.
OldAccess ==
    /\ p.pc = "oldAccess"
    /\ LET old == {n \in Namespaces \ {Target} : ns[n].ws = p.w /\ ns[n].uid = p.obj.uid}
           foreign == {n \in old : rb[n] # NoBinding /\ ~Own(rb[n])}
       IN  /\ rb' = [n \in Namespaces |->
                       IF n \in old /\ n = p.obj.resolved /\ rb[n] = NoBinding
                       THEN [ws |-> p.w, uid |-> p.obj.uid] ELSE rb[n]]
           /\ p' = [p EXCEPT !.pc = "oldDrain", !.ready = @ /\ foreign = {}]
    /\ UNCHANGED <<ws, ns, lq, cq, work, created, edits, jobs, faults>>

\* Mutant: work counts although its LocalQueue is gone.
InUseByAnyWork(n) ==
    /\ ns[n].ws = p.w /\ ns[n].uid = p.obj.uid
    /\ \E w \in Names : <<n, w>> \in work

\* namespaceRoutingMetadataInUse: unfinished work whose LocalQueue exists, in a
\* namespace that is the workspace's.
InUse(n) ==
    /\ ns[n].ws = p.w /\ ns[n].uid = p.obj.uid
    /\ \E w \in Names : <<n, w>> \in work /\ lq[n][w] # 0

Previous == p.obj.resolved \notin {None, Target}

OldDrain ==
    /\ p.pc = "oldDrain"
    /\ LET ok == p.ready /\ ~(Previous /\ InUse(p.obj.resolved))
       IN  p' = [p EXCEPT !.ready = ok, !.pc = IF ok THEN "staleQueues" ELSE "status"]
    /\ UNCHANGED <<ws, ns, rb, lq, cq, work, created, edits, jobs, faults>>

\* staleWorkspaceLocalQueuesDrained: every LocalQueue elsewhere is the workspace's
\* own and has no unfinished work.
StaleQueues ==
    /\ p.pc = "staleQueues"
    /\ LET stale == {n \in Namespaces \ {Target} : lq[n][p.w] # 0}
           ok == \A n \in stale : lq[n][p.w] = p.obj.uid /\ <<n, p.w>> \notin work
       IN  p' = [p EXCEPT !.ready = ok, !.pc = IF ok THEN "activate" ELSE "status"]
    /\ UNCHANGED <<ws, ns, rb, lq, cq, work, created, edits, jobs, faults>>

\* reconcileNamespace again, now with the labels that route work to the queue.
Activate ==
    /\ p.pc = "activate"
    /\ \/ /\ ~ns[Target].up \/ Claimable(Target)
          /\ ns' = Claimed(Target, TRUE)
          /\ p' = [p EXCEPT !.pc = "dropQueues"]
       \/ /\ ns[Target].up /\ ~Claimable(Target)
          /\ p' = [p EXCEPT !.pc = "status", !.ready = FALSE] /\ UNCHANGED ns
    /\ UNCHANGED <<ws, rb, lq, cq, work, created, edits, jobs, faults>>

\* The LocalQueues of the workspace outside `keep', when they are its own.
OwnQueues(keep) == {n \in Namespaces \ keep : lq[n][p.w] = p.obj.uid}

WithoutQueues(gone) == [n \in Namespaces |-> IF n \in gone THEN [lq[n] EXCEPT ![p.w] = 0] ELSE lq[n]]

\* Mutant: only the previous namespace is looked at.
DropPreviousQueues ==
    /\ p.pc = "dropQueues"
    /\ lq' = WithoutQueues(OwnQueues({Target}) \cap {p.obj.resolved})
    /\ p' = [p EXCEPT !.pc = "dropAccess"]
    /\ UNCHANGED <<ws, ns, rb, cq, work, created, edits, jobs, faults>>

DropQueues ==
    /\ p.pc = "dropQueues"
    /\ lq' = WithoutQueues(OwnQueues({Target}))
    /\ p' = [p EXCEPT !.pc = "dropAccess"]
    /\ UNCHANGED <<ws, ns, rb, cq, work, created, edits, jobs, faults>>

DropAccess ==
    /\ p.pc = "dropAccess"
    /\ rb' = [Revoked EXCEPT ![Target] = rb[Target]]
    /\ p' = [p EXCEPT !.pc = "dropMetadata"]
    /\ UNCHANGED <<ws, ns, lq, cq, work, created, edits, jobs, faults>>

\* Mutant: the label is emptied, not removed.
Emptied(n) == [ns EXCEPT ![n] = [@ EXCEPT !.ws = "", !.uid = 0, !.routed = FALSE]]

\* cleanupStaleNamespaceMetadata, unless work is there (again).
Unlabelled(n) ==
    IF ns[n].ws = p.w /\ ns[n].uid = p.obj.uid
    THEN [ns EXCEPT ![n] = [@ EXCEPT !.ws = None, !.uid = 0, !.routed = FALSE]] ELSE ns

DropMetadata ==
    /\ p.pc = "dropMetadata"
    /\ LET busy == Previous /\ InUse(p.obj.resolved)
       IN  /\ ns' = IF Previous /\ ~busy THEN Unlabelled(p.obj.resolved) ELSE ns
           /\ p' = [p EXCEPT !.pc = "status", !.clean = @ /\ ~busy]
    /\ UNCHANGED <<ws, rb, lq, cq, work, created, edits, jobs, faults>>

\* The status names the new namespace only when all went well; the update fails
\* when the workspace has changed since it was read.
Status ==
    /\ p.pc = "status"
    /\ ws' = IF ws[p.w] = p.obj /\ p.ready /\ p.clean
             THEN [ws EXCEPT ![p.w].resolved = Target] ELSE ws
    /\ p' = Idle
    /\ UNCHANGED <<ns, rb, lq, cq, work, created, edits, jobs, faults>>

-----------------------------------------------------------------------------
(* cleanupWorkspaceAccess, on a workspace that is deleting, under the quota lock *)

\* Mutant: the namespace is drained first, the researcher loses access after that.
DrainFirst(w) ==
    /\ p.pc = "idle" /\ ws[w].st = "deleting"
    /\ p' = [Idle EXCEPT !.pc = "drain", !.w = w, !.obj = ws[w]]
    /\ UNCHANGED <<ws, ns, rb, lq, cq, work, created, edits, jobs, faults>>

StartCleanup(w) ==
    /\ p.pc = "idle" /\ ws[w].st = "deleting"
    /\ p' = [Idle EXCEPT !.pc = "revoke", !.w = w, !.obj = ws[w]]
    /\ UNCHANGED <<ws, ns, rb, lq, cq, work, created, edits, jobs, faults>>

\* An object with the workspace's label and another UID stops the cleanup.
Revoke ==
    /\ p.pc = "revoke"
    /\ rb' = Revoked
    /\ p' = IF \E n \in Namespaces : rb[n].ws = p.w /\ ~Own(rb[n]) THEN Idle ELSE [p EXCEPT !.pc = "drain"]
    /\ UNCHANGED <<ws, ns, lq, cq, work, created, edits, jobs, faults>>

CleanupNamespace == IF p.obj.resolved # None THEN p.obj.resolved ELSE Target

Drain ==
    /\ p.pc = "drain"
    /\ p' = IF InUse(CleanupNamespace) THEN Idle ELSE [p EXCEPT !.pc = "deleteLocal"]
    /\ UNCHANGED <<ws, ns, rb, lq, cq, work, created, edits, jobs, faults>>

\* Mutant: a move that was under way is forgotten.
DeleteLocalInNamespace ==
    /\ p.pc = "deleteLocal"
    /\ lq' = WithoutQueues(OwnQueues({}) \cap {CleanupNamespace})
    /\ p' = [p EXCEPT !.pc = "deleteCluster"]
    /\ UNCHANGED <<ws, ns, rb, cq, work, created, edits, jobs, faults>>

DeleteLocal ==
    /\ p.pc = "deleteLocal"
    /\ lq' = WithoutQueues(OwnQueues({}))
    /\ p' = IF \E n \in Namespaces : lq[n][p.w] \notin {0, p.obj.uid} THEN Idle
            ELSE [p EXCEPT !.pc = "deleteCluster"]
    /\ UNCHANGED <<ws, ns, rb, cq, work, created, edits, jobs, faults>>

DeleteCluster ==
    /\ p.pc = "deleteCluster"
    /\ \/ /\ cq[p.w] \in {0, p.obj.uid}
          /\ cq' = [cq EXCEPT ![p.w] = 0]
          /\ p' = [p EXCEPT !.pc = "deleteMetadata"]
       \/ /\ cq[p.w] \notin {0, p.obj.uid}
          /\ p' = Idle /\ UNCHANGED cq
    /\ UNCHANGED <<ws, ns, rb, lq, work, created, edits, jobs, faults>>

DeleteMetadata ==
    /\ p.pc = "deleteMetadata"
    /\ \/ /\ ~InUse(CleanupNamespace)
          /\ ns' = Unlabelled(CleanupNamespace)
          /\ p' = [p EXCEPT !.pc = "finalizer"]
       \/ /\ InUse(CleanupNamespace)
          /\ p' = Idle /\ UNCHANGED ns
    /\ UNCHANGED <<ws, rb, lq, cq, work, created, edits, jobs, faults>>

DropFinalizer ==
    /\ p.pc = "finalizer"
    /\ ws' = IF ws[p.w] = p.obj THEN [ws EXCEPT ![p.w] = NoWorkspace] ELSE ws
    /\ p' = Idle
    /\ UNCHANGED <<ns, rb, lq, cq, work, created, edits, jobs, faults>>

-----------------------------------------------------------------------------
(* Failures *)

Fault == faults < FaultBudget /\ faults' = faults + 1

\* A call of syncWorkspace fails: it is noted and the pass goes on as far as the
\* code lets it.
CallFails ==
    /\ Fault
    /\ \/ /\ p.pc \in {"namespace", "clusterQueue", "localQueue"}
          /\ p' = [p EXCEPT !.pc = "identity", !.ready = FALSE]
       \/ /\ p.pc = "rbac"
          /\ p' = [p EXCEPT !.pc = "clusterQueue", !.ready = FALSE]
       \/ /\ p.pc = "oldAccess"
          /\ p' = [p EXCEPT !.pc = "oldDrain", !.ready = FALSE]
       \/ /\ p.pc \in {"oldDrain", "staleQueues", "activate"}
          /\ p' = [p EXCEPT !.pc = "status", !.ready = FALSE]
       \/ /\ p.pc = "dropQueues"
          /\ p' = [p EXCEPT !.pc = "dropAccess", !.clean = FALSE]
       \/ /\ p.pc = "dropAccess"
          /\ p' = [p EXCEPT !.pc = "dropMetadata", !.clean = FALSE]
       \/ /\ p.pc = "dropMetadata"
          /\ p' = [p EXCEPT !.pc = "status", !.clean = FALSE]
    /\ UNCHANGED <<ws, ns, rb, lq, cq, work, created, edits, jobs>>

\* A call of the cleanup or of the status update fails, or the controller restarts.
Abort ==
    /\ Fault /\ p.pc # "idle"
    /\ p' = Idle
    /\ UNCHANGED <<ws, ns, rb, lq, cq, work, created, edits, jobs>>

-----------------------------------------------------------------------------
(* Users, researchers and Kueue *)

Edit == edits < EditBudget /\ edits' = edits + 1

CreateWs(w, n, adopt) ==
    /\ Edit /\ ws[w].st = "absent" /\ created < MaxUid
    /\ created' = created + 1
    /\ ws' = [ws EXCEPT ![w] = [NoWorkspace EXCEPT !.st = "new", !.uid = created + 1,
                                                   !.target = n, !.adopt = adopt]]
    /\ UNCHANGED <<ns, rb, lq, cq, work, p, jobs, faults>>

\* Reconcile of a workspace without the finalizer.
AddFinalizer(w) ==
    /\ p.pc = "idle" /\ ws[w].st = "new"
    /\ ws' = [ws EXCEPT ![w].st = "live"]
    /\ UNCHANGED <<ns, rb, lq, cq, work, p, created, edits, jobs, faults>>

Retarget(w, n) ==
    /\ Edit /\ ws[w].st = "live" /\ ws[w].target # n
    /\ ws' = [ws EXCEPT ![w].target = n]
    /\ UNCHANGED <<ns, rb, lq, cq, work, p, created, jobs, faults>>

\* An administrator names the namespace that may be adopted, or takes the evidence back.
Annotate(w, adopt) ==
    /\ Edit /\ ws[w].st = "live" /\ ws[w].adopt # adopt
    /\ ws' = [ws EXCEPT ![w].adopt = adopt]
    /\ UNCHANGED <<ns, rb, lq, cq, work, p, created, jobs, faults>>

DeleteWs(w) ==
    /\ Edit /\ ws[w].st \in {"new", "live"}
    /\ ws' = [ws EXCEPT ![w] = IF @.st = "new" THEN NoWorkspace ELSE [@ EXCEPT !.st = "deleting"]]
    /\ UNCHANGED <<ns, rb, lq, cq, work, p, created, jobs, faults>>

\* A researcher submits to the namespace that the status names, if RBAC lets him.
Submit(w) ==
    /\ jobs < WorkBudget /\ jobs' = jobs + 1
    /\ LET n == ws[w].resolved IN
          /\ n # None /\ rb[n] = [ws |-> w, uid |-> ws[w].uid] /\ lq[n][w] # 0
          /\ <<n, w>> \notin work
          /\ work' = work \cup {<<n, w>>}
    /\ UNCHANGED <<ws, ns, rb, lq, cq, p, created, edits, faults>>

\* Kueue admits what has a LocalQueue, a ClusterQueue and a namespace that its selector matches.
Routed(n, w) == lq[n][w] # 0 /\ cq[w] # 0 /\ ns[n].ws = w

Finish(n, w) ==
    /\ <<n, w>> \in work /\ Routed(n, w)
    /\ work' = work \ {<<n, w>>}
    /\ UNCHANGED <<ws, ns, rb, lq, cq, p, created, edits, jobs, faults>>

-----------------------------------------------------------------------------
Init ==
    /\ ws = [w \in Names |-> NoWorkspace]
    /\ ns = [n \in Namespaces |-> [up |-> n \in Existing, ws |-> None, uid |-> 0, routed |-> FALSE]]
    /\ rb = [n \in Namespaces |-> NoBinding]
    /\ lq = [n \in Namespaces |-> [w \in Names |-> 0]] /\ cq = [w \in Names |-> 0]
    /\ work = {} /\ p = Idle
    /\ created = 0 /\ edits = 0 /\ jobs = 0 /\ faults = 0

SyncStep == \/ Namespace \/ Rbac \/ ClusterQueue \/ LocalQueue \/ Identity \/ OldAccess \/ OldDrain
            \/ StaleQueues \/ Activate \/ DropQueues \/ DropAccess \/ DropMetadata \/ Status
CleanupStep == Revoke \/ Drain \/ DeleteLocal \/ DeleteCluster \/ DeleteMetadata \/ DropFinalizer

Next ==
    \/ SyncStep \/ CleanupStep \/ CallFails \/ Abort
    \/ \E w \in Names : Start(w) \/ StartCleanup(w) \/ AddFinalizer(w) \/ DeleteWs(w) \/ Submit(w)
    \/ \E w \in Names, n \in Namespaces :
          \/ Retarget(w, n) \/ Finish(n, w)
          \/ \E adopt \in {None, n} : CreateWs(w, n, adopt) \/ Annotate(w, adopt)

\* A reconcile goes on, every workspace is requeued, and admitted work ends.
Fairness ==
    /\ WF_vars(SyncStep) /\ WF_vars(CleanupStep)
    /\ \A w \in Names : SF_vars(Start(w)) /\ SF_vars(StartCleanup(w)) /\ SF_vars(AddFinalizer(w))
    /\ \A w \in Names, n \in Namespaces : WF_vars(Finish(n, w))

Spec == Init /\ [][Next]_vars /\ Fairness

-----------------------------------------------------------------------------
(* Properties *)

Alive(uid) == \E w \in Names : ws[w].st # "absent" /\ ws[w].uid = uid

\* Isolation: a namespace that belongs to a TauWorkspace which exists never goes
\* to another one, whatever is recreated, retargeted or adopted meanwhile.
NamespaceKept ==
    [][\A n \in Namespaces : ns[n].uid # 0 /\ Alive(ns[n].uid) => ns'[n].uid \in {ns[n].uid, 0}]_vars

\* Nothing survives its workspace: no researcher binding, LocalQueue or
\* ClusterQueue carries the UID of a workspace that is gone, whatever it was
\* doing when it was deleted and whatever has failed.
NothingSurvives ==
    /\ \A n \in Namespaces : rb[n] # NoBinding => Alive(rb[n].uid)
    /\ \A n \in Namespaces, w \in Names : lq[n][w] # 0 => Alive(lq[n][w])
    /\ \A w \in Names : cq[w] # 0 => Alive(cq[w])

\* Deletion takes no route from unfinished work: what still has its queues and
\* its labels in the workspace's namespace keeps them, although the researcher may
\* submit until his binding is revoked.
CleanupKeepsRoutes ==
    [][\A w \in Names, n \in Namespaces :
         p.pc \in CleanupPc /\ <<n, w>> \in work /\ n = ws[w].resolved /\ Routed(n, w) => Routed(n, w)']_vars

\* The workspace can have its target namespace, now and for good.
Attainable(w) ==
    LET n == ws[w].target IN
    /\ ws[w].adopt \in {None, n}
    /\ ns[n].up => \/ ns[n].ws = w /\ ns[n].uid = ws[w].uid
                   \/ ws[w].adopt = n /\ (ns[n].ws \in {None, w} \/ ws[ns[n].ws].st = "absent")
    /\ rb[n] = NoBinding \/ rb[n] = [ws |-> w, uid |-> ws[w].uid]
    /\ lq[n][w] \in {0, ws[w].uid}

\* A move ends: when the target can be had and no work of the workspace has
\* lost its queues or its labels (it would block the move), the status names the target in the end and neither a
\* binding nor a queue is left elsewhere, whichever call has failed on the way.
MoveEnds ==
    \A w \in Names :
       <>[](ws[w].st = "live" /\ Attainable(w) /\ \A n \in Namespaces : <<n, w>> \in work => Routed(n, w)) =>
       <>[](/\ ws[w].st = "live" /\ ws[w].resolved = ws[w].target /\ Routed(ws[w].target, w)
            /\ \A n \in Namespaces \ {ws[w].target} : rb[n].ws # w /\ lq[n][w] = 0)

\* A deleted workspace goes: its cleanup waits for admitted work and for nothing else.
DeletionEnds == \A w \in Names : ws[w].st = "deleting" ~> ws[w].st = "absent"
=============================================================================
