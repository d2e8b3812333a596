---------------------- MODULE WorkspaceLifecycleProofs ----------------------
(***************************************************************************)
(* Machine-checked proofs about WorkspaceLifecycle, for any finite sets of *)
(* workspaces and namespaces and any values of the bounds.                 *)
(***************************************************************************)
EXTENDS WorkspaceLifecycle, TLAPS

-----------------------------------------------------------------------------
(* The inductive invariant *)

\* The API server gives every TauWorkspace a UID of its own, never used before.
UidsUnique ==
    /\ \A w \in Names : /\ ws[w].st = "absent" <=> ws[w].uid = 0
                        /\ ws[w].st # "absent" => ws[w].target \in Namespaces
                        /\ ws[w].uid <= created
    /\ \A w, v \in Names : ws[w].uid = ws[v].uid /\ ws[w].uid # 0 => w = v
    /\ \A n \in Namespaces : ns[n].uid <= created

\* What a reconcile read at its start is stale in what a user may edit, never
\* in the identity; a workspace that is deleting changes no more.
PassCurrent ==
    p.pc # "idle" =>
       /\ p.w \in Names /\ p.obj.uid = ws[p.w].uid /\ p.obj.uid # 0 /\ Target \in Namespaces
       /\ p.pc \in SyncPc => ws[p.w].st \in {"live", "deleting"}
       /\ p.pc \in CleanupPc => ws[p.w].st = "deleting" /\ ws[p.w] = p.obj

\* Every binding and queue belongs to the workspace whose name it carries.
Owned ==
    /\ \A n \in Namespaces : rb[n] # NoBinding =>
          rb[n].ws \in Names /\ rb[n].uid # 0 /\ rb[n].uid = ws[rb[n].ws].uid
    /\ \A n \in Namespaces, w \in Names : lq[n][w] # 0 => lq[n][w] = ws[w].uid
    /\ \A w \in Names : cq[w] # 0 => cq[w] = ws[w].uid

OwnsNoBinding(w) == \A n \in Namespaces : rb[n].ws # w
OwnsNoQueue(w) == \A n \in Namespaces : lq[n][w] = 0

\* A workspace without the finalizer has nothing yet, and the cleanup leaves
\* nothing behind, one kind after the other.
NothingLeft ==
    /\ \A w \in Names : ws[w].st = "new" => OwnsNoBinding(w) /\ OwnsNoQueue(w) /\ cq[w] = 0
    /\ p.pc \in CleanupPc \ {"revoke"} => OwnsNoBinding(p.w)
    /\ p.pc \in CleanupPc \ {"revoke", "drain", "deleteLocal"} => OwnsNoQueue(p.w)
    /\ p.pc \in {"deleteMetadata", "finalizer"} => cq[p.w] = 0

\* The labels of a namespace name the workspace that its owner UID belongs to.
LabelsAgree ==
    \A n \in Namespaces : ns[n].uid # 0 =>
       ns[n].up /\ \A w \in Names : ws[w].uid = ns[n].uid => ns[n].ws = w

\* A pass that goes well has its target namespace.
TargetClaimed ==
    /\ p.pc \in SyncPc \ {"namespace"} /\ p.ready => ns[Target].ws = p.w /\ ns[Target].uid = p.obj.uid
    /\ p.pc \in {"namespace", "staleQueues"} => (p.ready <=> p.pc = "staleQueues")

\* The namespace of the status carries the workspace's label only with its UID,
\* so that the cleanup finds the work in it.
ResolvedAgrees ==
    \A w \in Names : ws[w].resolved # None /\ ns[ws[w].resolved].ws = w =>
                        ns[ws[w].resolved].uid = ws[w].uid

\* Once drained, the namespace has no work with a route left.
Drained ==
    p.pc = "deleteLocal" /\ p.obj.resolved # None =>
       ~(<<p.obj.resolved, p.w>> \in work /\ Routed(p.obj.resolved, p.w))

LifecycleInv == /\ TypeOK /\ UidsUnique /\ PassCurrent /\ Owned /\ NothingLeft
                /\ LabelsAgree /\ TargetClaimed /\ ResolvedAgrees /\ Drained

-----------------------------------------------------------------------------
(* Types *)

\* The initial and the reset values are well typed.
LEMMA ConstantsType ==
    /\ 0 \in Uid /\ NoWorkspace \in Workspace /\ NoBinding \in Binding /\ Idle \in Pass
BY LifecycleConstants DEF Uid, NoWorkspace, Workspace, NoBinding, Binding, Idle, Pass

\* A reconcile (syncWorkspace or cleanupWorkspaceAccess) keeps the object that it
\* read, goes forward, and does not pass from one kind to the other.
LEMMA PassShape ==
    ASSUME TypeOK, SyncStep \/ CleanupStep \/ CallFails
    PROVE  /\ p' \in Pass
           /\ \/ p' = Idle
              \/ /\ p'.w = p.w /\ p'.obj = p.obj
                 /\ \/ p.pc \in SyncPc /\ p'.pc \in SyncPc \ {"namespace"}
                    \/ p.pc \in CleanupPc /\ p'.pc \in CleanupPc \ {"revoke"}
<1> USE ConstantsType DEF Pass, SyncPc, CleanupPc
<1>0. p \in Pass
  BY DEF TypeOK
<1>1. CASE Namespace
  BY <1>0, <1>1 DEF Namespace
<1>2. CASE Rbac
  BY <1>0, <1>2 DEF Rbac
<1>3. CASE ClusterQueue
  BY <1>0, <1>3 DEF ClusterQueue
<1>4. CASE LocalQueue
  BY <1>0, <1>4 DEF LocalQueue
<1>5. CASE Identity
  BY <1>0, <1>5 DEF Identity
<1>6. CASE OldAccess
  BY <1>0, <1>6 DEF OldAccess
<1>7. CASE OldDrain
  BY <1>0, <1>7 DEF OldDrain
<1>8. CASE StaleQueues
  BY <1>0, <1>8 DEF StaleQueues
<1>9. CASE Activate
  BY <1>0, <1>9 DEF Activate
<1>10. CASE DropQueues
  BY <1>0, <1>10 DEF DropQueues
<1>11. CASE DropAccess
  BY <1>0, <1>11 DEF DropAccess
<1>12. CASE DropMetadata
  BY <1>0, <1>12 DEF DropMetadata
<1>13. CASE Status
  BY <1>0, <1>13 DEF Status
<1>14. CASE Revoke
  BY <1>0, <1>14 DEF Revoke
<1>15. CASE Drain
  BY <1>0, <1>15 DEF Drain
<1>16. CASE DeleteLocal
  BY <1>0, <1>16 DEF DeleteLocal
<1>17. CASE DeleteCluster
  BY <1>0, <1>17 DEF DeleteCluster
<1>18. CASE DeleteMetadata
  BY <1>0, <1>18 DEF DeleteMetadata
<1>19. CASE DropFinalizer
  BY <1>0, <1>19 DEF DropFinalizer
<1>20. CASE CallFails
  BY <1>0, <1>20 DEF CallFails
<1> QED BY <1>1, <1>2, <1>3, <1>4, <1>5, <1>6, <1>7, <1>8, <1>9, <1>10, <1>11, <1>12, <1>13,
           <1>14, <1>15, <1>16, <1>17, <1>18, <1>19, <1>20 DEF SyncStep, CleanupStep


\* The variables keep their types: every step of the reconciler, every failure
\* and every edit writes well-formed objects.
LEMMA TypeStep ==
    ASSUME TypeOK, PassCurrent, [Next]_vars
    PROVE  TypeOK'
<1> USE LifecycleConstants, ConstantsType
<1> DEFINE NsObject == [up : BOOLEAN, ws : Names \cup {None}, uid : Uid, routed : BOOLEAN]
<1>0. /\ p \in Pass /\ p.w \in Names \cup {None} /\ p.obj \in Workspace
      /\ p.obj.uid \in Uid /\ Target \in Namespaces \cup {None}
      /\ p.obj.resolved \in Namespaces \cup {None}
      /\ p.pc # "idle" => p.w \in Names /\ Target \in Namespaces
  BY DEF TypeOK, Pass, Workspace, Target, PassCurrent
<1>1. CASE Namespace
  <2>1. ns' \in [Namespaces -> NsObject]
    <3>1. Target \in Namespaces /\ p.w \in Names
      BY <1>0, <1>1 DEF Namespace
    <3>2. Claimed(Target, FALSE) \in [Namespaces -> NsObject]
      BY <1>0, <3>1 DEF TypeOK, Claimed
    <3> QED BY <1>1, <3>2 DEF TypeOK, Namespace
  <2> QED BY <1>1, <2>1, PassShape DEF TypeOK, Namespace, SyncStep
<1>2. CASE Rbac
  <2>1. [ws |-> p.w, uid |-> p.obj.uid] \in Binding
    BY <1>0 DEF Binding
  <2>2. rb' \in [Namespaces -> Binding]
    BY <1>2, <2>1 DEF TypeOK, Rbac
  <2> QED BY <1>2, <2>2, PassShape DEF TypeOK, Rbac, SyncStep
<1>3. CASE ClusterQueue
  <2>1. cq' \in [Names -> Uid]
    BY <1>0, <1>3 DEF TypeOK, ClusterQueue
  <2> QED BY <1>3, <2>1, PassShape DEF TypeOK, ClusterQueue, SyncStep
<1>4. CASE LocalQueue
  <2>1. lq' \in [Namespaces -> [Names -> Uid]]
    BY <1>0, <1>4 DEF TypeOK, LocalQueue
  <2> QED BY <1>4, <2>1, PassShape DEF TypeOK, LocalQueue, SyncStep
<1>5. CASE Identity
  <2>1. rb' \in [Namespaces -> Binding] /\ faults' \in 0..FaultBudget
    BY <1>5 DEF TypeOK, Identity, Revoked
  <2> QED BY <1>5, <2>1, PassShape DEF TypeOK, Identity, SyncStep
<1>6. CASE OldAccess
  <2>1. [ws |-> p.w, uid |-> p.obj.uid] \in Binding
    BY <1>0 DEF Binding
  <2>2. rb' \in [Namespaces -> Binding]
    BY <1>6, <2>1 DEF TypeOK, OldAccess
  <2> QED BY <1>6, <2>2, PassShape DEF TypeOK, OldAccess, SyncStep
<1>7. CASE OldDrain \/ StaleQueues
  BY <1>7, PassShape DEF TypeOK, OldDrain, StaleQueues, SyncStep
<1>8. CASE Activate
  <2>1. ns' \in [Namespaces -> NsObject]
    <3>1. Target \in Namespaces /\ p.w \in Names
      BY <1>0, <1>8 DEF Activate
    <3>2. Claimed(Target, TRUE) \in [Namespaces -> NsObject]
      BY <1>0, <3>1 DEF TypeOK, Claimed
    <3> QED BY <1>8, <3>2 DEF TypeOK, Activate
  <2> QED BY <1>8, <2>1, PassShape DEF TypeOK, Activate, SyncStep
<1>9. \A gone : WithoutQueues(gone) \in [Namespaces -> [Names -> Uid]]
  BY DEF TypeOK, WithoutQueues
<1>10. CASE DropQueues
  BY <1>9, <1>10, PassShape DEF TypeOK, DropQueues, SyncStep
<1>11. CASE DropAccess
  <2>1. rb' \in [Namespaces -> Binding]
    BY <1>0, <1>11 DEF TypeOK, DropAccess, Revoked
  <2> QED BY <1>11, <2>1, PassShape DEF TypeOK, DropAccess, SyncStep
<1>12. \A n : Unlabelled(n) \in [Namespaces -> NsObject]
  BY DEF TypeOK, Unlabelled
<1>13. CASE DropMetadata
  <2>1. ns' \in [Namespaces -> NsObject]
    BY <1>12, <1>13 DEF TypeOK, DropMetadata
  <2> QED BY <1>13, <2>1, PassShape DEF TypeOK, DropMetadata, SyncStep
<1>14. CASE Status
  <2>1. ws' \in [Names -> Workspace]
    <3>1. [ws EXCEPT ![p.w].resolved = Target] \in [Names -> Workspace]
      BY <1>0 DEF TypeOK, Workspace
    <3> QED BY <1>14, <3>1 DEF TypeOK, Status
  <2> QED BY <1>14, <2>1 DEF TypeOK, Status
<1>15. CASE Revoke
  <2>1. rb' \in [Namespaces -> Binding]
    BY <1>15 DEF TypeOK, Revoke, Revoked
  <2> QED BY <1>15, <2>1, PassShape DEF TypeOK, Revoke, CleanupStep
<1>16. CASE Drain
  BY <1>16, PassShape DEF TypeOK, Drain, CleanupStep
<1>17. CASE DeleteLocal
  BY <1>9, <1>17, PassShape DEF TypeOK, DeleteLocal, CleanupStep
<1>18. CASE DeleteCluster
  <2>1. cq' \in [Names -> Uid]
    BY <1>18 DEF TypeOK, DeleteCluster
  <2> QED BY <1>18, <2>1, PassShape DEF TypeOK, DeleteCluster, CleanupStep
<1>19. CASE DeleteMetadata
  <2>1. ns' \in [Namespaces -> NsObject]
    BY <1>12, <1>19 DEF TypeOK, DeleteMetadata
  <2> QED BY <1>19, <2>1, PassShape DEF TypeOK, DeleteMetadata, CleanupStep
<1>20. CASE DropFinalizer
  BY <1>20 DEF TypeOK, DropFinalizer
<1>21. CASE CallFails
  BY <1>21, PassShape DEF TypeOK, CallFails, Fault
<1>22. CASE Abort
  BY <1>22 DEF TypeOK, Abort, Fault
<1>23. ASSUME NEW w \in Names, Start(w) \/ StartCleanup(w) PROVE TypeOK'
  <2>1. ws[w] \in Workspace
    BY DEF TypeOK
  <2>2. p' \in Pass
    BY <1>23, <2>1 DEF Start, StartCleanup, Pass, Idle, SyncPc, CleanupPc
  <2> QED BY <1>23, <2>2 DEF TypeOK, Start, StartCleanup
<1>24. ASSUME NEW w \in Names, NEW o \in Workspace, ws' = [ws EXCEPT ![w] = o] PROVE ws' \in [Names -> Workspace]
  BY <1>24 DEF TypeOK
<1>25. ASSUME NEW w \in Names, AddFinalizer(w) PROVE TypeOK'
  <2>1. [ws[w] EXCEPT !.st = "live"] \in Workspace
    BY DEF TypeOK, Workspace
  <2> QED BY <1>24, <1>25, <2>1 DEF TypeOK, AddFinalizer
<1>26. ASSUME NEW w \in Names, DeleteWs(w) PROVE TypeOK'
  <2>1. [ws[w] EXCEPT !.st = "deleting"] \in Workspace
    BY DEF TypeOK, Workspace
  <2>2. ws' \in [Names -> Workspace]
    BY <1>26, <2>1 DEF TypeOK, DeleteWs
  <2> QED BY <1>26, <2>2 DEF TypeOK, DeleteWs, Edit
<1>27. ASSUME NEW w \in Names, Submit(w) PROVE TypeOK'
  <2>1. ws[w].resolved \in Namespaces
    BY <1>27 DEF TypeOK, Workspace, Submit
  <2> QED BY <1>27, <2>1 DEF TypeOK, Submit
<1>28. ASSUME NEW w \in Names, NEW n \in Namespaces, Retarget(w, n) PROVE TypeOK'
  <2>1. [ws[w] EXCEPT !.target = n] \in Workspace
    BY DEF TypeOK, Workspace
  <2> QED BY <1>24, <1>28, <2>1 DEF TypeOK, Retarget, Edit
<1>29. ASSUME NEW w \in Names, NEW n \in Namespaces, Finish(n, w) PROVE TypeOK'
  BY <1>29 DEF TypeOK, Finish
<1>30. ASSUME NEW w \in Names, NEW n \in Namespaces, NEW adopt \in {None, n}, CreateWs(w, n, adopt) PROVE TypeOK'
  <2>1. created + 1 \in Uid
    BY <1>30 DEF TypeOK, CreateWs, Uid
  <2>2. [NoWorkspace EXCEPT !.st = "new", !.uid = created + 1, !.target = n, !.adopt = adopt] \in Workspace
    BY <2>1 DEF NoWorkspace, Workspace
  <2> QED BY <1>24, <1>30, <2>1, <2>2 DEF TypeOK, CreateWs, Edit
<1>31. ASSUME NEW w \in Names, NEW n \in Namespaces, NEW adopt \in {None, n}, Annotate(w, adopt) PROVE TypeOK'
  <2>1. [ws[w] EXCEPT !.adopt = adopt] \in Workspace
    BY DEF TypeOK, Workspace
  <2> QED BY <1>24, <1>31, <2>1 DEF TypeOK, Annotate, Edit
<1>32. CASE UNCHANGED vars
  BY <1>32 DEF TypeOK, vars
<1> QED BY <1>1, <1>2, <1>3, <1>4, <1>5, <1>6, <1>7, <1>8, <1>10, <1>11, <1>13, <1>14, <1>15, <1>16,
           <1>17, <1>18, <1>19, <1>20, <1>21, <1>22, <1>23, <1>25, <1>26, <1>27, <1>28, <1>29, <1>30,
           <1>31, <1>32 DEF Next, SyncStep, CleanupStep

-----------------------------------------------------------------------------
(* Identities *)

\* Only the last step of a reconcile writes a TauWorkspace, and no step of it
\* makes one.
LEMMA PassFrame ==
    ASSUME TypeOK, SyncStep \/ CleanupStep \/ CallFails
    PROVE  created' = created /\ (ws' = ws \/ p' = Idle)
BY DEF SyncStep, CleanupStep, Namespace, Rbac, ClusterQueue, LocalQueue, Identity, OldAccess, OldDrain, StaleQueues,
   Activate, DropQueues, DropAccess, DropMetadata, Status, Revoke, Drain, DeleteLocal, DeleteCluster,
   DeleteMetadata, DropFinalizer, CallFails

\* While a reconcile runs, its workspace keeps its UID: a user can mark it for
\* deletion and edit it, and only the reconcile itself drops the finalizer.
LEMMA PassStep ==
    ASSUME TypeOK, UidsUnique, PassCurrent, [Next]_vars
    PROVE  PassCurrent'
<1> USE LifecycleConstants DEF TypeOK, PassCurrent, UidsUnique, Target, SyncPc, CleanupPc
<1>0. (p' = Idle) => PassCurrent'
  BY DEF Idle
<1>1. CASE SyncStep \/ CleanupStep \/ CallFails
  <2>1. CASE p' # Idle
    <3>1. ws' = ws /\ p'.w = p.w /\ p'.obj = p.obj
      BY <1>1, <2>1, PassShape, PassFrame
    <3>2. \/ p.pc \in SyncPc /\ p'.pc \in SyncPc
          \/ p.pc \in CleanupPc /\ p'.pc \in CleanupPc
      BY <1>1, <2>1, PassShape
    <3> QED BY <3>1, <3>2
  <2> QED BY <1>0, <2>1
<1>2. CASE Abort
  BY <1>0, <1>2 DEF Abort
<1>3. ASSUME NEW w \in Names, Start(w) PROVE PassCurrent'
  BY <1>3 DEF Start, Idle
<1>4. ASSUME NEW w \in Names, StartCleanup(w) PROVE PassCurrent'
  BY <1>4 DEF StartCleanup, Idle
<1>5. ASSUME NEW w \in Names, AddFinalizer(w) PROVE PassCurrent'
  BY <1>5 DEF AddFinalizer
<1>6. ASSUME NEW w \in Names, DeleteWs(w) PROVE PassCurrent'
  BY <1>6 DEF DeleteWs, Pass, Workspace, NoWorkspace
<1>7. ASSUME NEW w \in Names, Submit(w) PROVE PassCurrent'
  BY <1>7 DEF Submit
<1>8. ASSUME NEW w \in Names, NEW n \in Namespaces, Retarget(w, n) PROVE PassCurrent'
  BY <1>8 DEF Retarget
<1>9. ASSUME NEW w \in Names, NEW n \in Namespaces, Finish(n, w) PROVE PassCurrent'
  BY <1>9 DEF Finish
<1>10. ASSUME NEW w \in Names, NEW n \in Namespaces, NEW adopt \in {None, n}, CreateWs(w, n, adopt) PROVE PassCurrent'
  BY <1>10 DEF CreateWs
<1>11. ASSUME NEW w \in Names, NEW n \in Namespaces, NEW adopt \in {None, n}, Annotate(w, adopt) PROVE PassCurrent'
  BY <1>11 DEF Annotate
<1>12. CASE UNCHANGED vars
  BY <1>12 DEF vars
<1> HIDE DEF PassCurrent
<1> QED BY <1>1, <1>2, <1>3, <1>4, <1>5, <1>6, <1>7, <1>8, <1>9, <1>10, <1>11, <1>12 DEF Next

\* cleanupStaleNamespaceMetadata takes the labels from one namespace, if they are
\* the workspace's own.
LEMMA UnlabelledShape ==
    ASSUME TypeOK, NEW m \in Namespaces \cup {None}, NEW n \in Namespaces
    PROVE  \/ Unlabelled(m)[n] = ns[n]
           \/ /\ n = m /\ ns[n].ws = p.w /\ ns[n].uid = p.obj.uid
              /\ Unlabelled(m)[n].up = ns[n].up
              /\ Unlabelled(m)[n].ws = None /\ Unlabelled(m)[n].uid = 0
<1>1. CASE ns[m].ws = p.w /\ ns[m].uid = p.obj.uid /\ n = m
  BY <1>1 DEF TypeOK, Unlabelled
<1>2. CASE ~(ns[m].ws = p.w /\ ns[m].uid = p.obj.uid /\ n = m)
  BY <1>2 DEF TypeOK, Unlabelled
<1> QED BY <1>1, <1>2

\* reconcileNamespace labels the target namespace and no other.
LEMMA ClaimedShape ==
    ASSUME TypeOK, NEW a, NEW n \in Namespaces
    PROVE  IF n = Target
           THEN Claimed(Target, a)[n].up /\ Claimed(Target, a)[n].ws = p.w /\ Claimed(Target, a)[n].uid = p.obj.uid
           ELSE Claimed(Target, a)[n] = ns[n]
BY DEF TypeOK, Claimed

\* What a reconcile does to the labels of a namespace.
Relabelled(n) ==
    \/ ns'[n] = ns[n]
    \/ /\ n = Target /\ p.pc \in {"namespace", "activate"}
       /\ ~ns[n].up \/ Claimable(n)
       /\ ns'[n].up /\ ns'[n].ws = p.w /\ ns'[n].uid = p.obj.uid
    \/ /\ \/ p.pc = "dropMetadata" /\ n # Target
          \/ p.pc = "deleteMetadata" /\ n = CleanupNamespace
       /\ ns[n].ws = p.w /\ ns[n].uid = p.obj.uid
       /\ ns'[n].up = ns[n].up /\ ns'[n].ws = None /\ ns'[n].uid = 0

\* Only reconcileNamespace and cleanupStaleNamespaceMetadata write namespaces,
\* and they write nothing else.
LEMMA NsEffect ==
    ASSUME TypeOK, [Next]_vars, ns' # ns
    PROVE  /\ Namespace \/ Activate \/ DropMetadata \/ DeleteMetadata
           /\ p.pc \in {"namespace", "activate", "dropMetadata", "deleteMetadata"}
           /\ UNCHANGED <<ws, rb, lq, cq, work, created>>
           /\ \A n \in Namespaces : Relabelled(n)
<1>0. Namespace \/ Activate \/ DropMetadata \/ DeleteMetadata
  BY DEF Next, SyncStep, CleanupStep, vars, Rbac, ClusterQueue, LocalQueue, Identity, OldAccess, OldDrain, StaleQueues,
     DropQueues, DropAccess, Status, Revoke, Drain, DeleteLocal, DeleteCluster, DropFinalizer, CallFails, Abort,
     Start, StartCleanup, AddFinalizer, DeleteWs, Submit, Retarget, Finish, CreateWs, Annotate
<1>1. /\ p.pc \in {"namespace", "activate", "dropMetadata", "deleteMetadata"}
      /\ UNCHANGED <<ws, rb, lq, cq, work, created>>
  BY <1>0 DEF Namespace, Activate, DropMetadata, DeleteMetadata
<1>2. CASE Namespace \/ Activate
  <2>1. /\ ~ns[Target].up \/ Claimable(Target)
        /\ ns' = Claimed(Target, FALSE) \/ ns' = Claimed(Target, TRUE)
        /\ p.pc \in {"namespace", "activate"}
    BY <1>2 DEF Namespace, Activate
  <2> QED BY <1>0, <1>1, <2>1, ClaimedShape DEF Relabelled
<1>3. CASE DropMetadata
  <2>1. ns' = Unlabelled(p.obj.resolved) /\ p.obj.resolved \notin {None, Target} /\ p.pc = "dropMetadata"
    BY <1>3 DEF DropMetadata, Previous
  <2>2. p.obj.resolved \in Namespaces \cup {None}
    BY DEF TypeOK, Pass, Workspace
  <2>3. ASSUME NEW n \in Namespaces PROVE Relabelled(n)
    <3> DEFINE m == p.obj.resolved
    <3> HIDE DEF m
    <3>1. ns' = Unlabelled(m) /\ m \in Namespaces \cup {None} /\ m # Target
      BY <2>1, <2>2 DEF m
    <3>2. \/ ns'[n] = ns[n]
          \/ /\ n # Target /\ ns[n].ws = p.w /\ ns[n].uid = p.obj.uid
             /\ ns'[n].up = ns[n].up /\ ns'[n].ws = None /\ ns'[n].uid = 0
      BY <3>1, UnlabelledShape
    <3> QED BY <2>1, <3>2 DEF Relabelled
  <2> QED BY <1>0, <1>1, <2>3
<1>4. CASE DeleteMetadata
  <2>1. ns' = Unlabelled(CleanupNamespace) /\ p.pc = "deleteMetadata"
    BY <1>4 DEF DeleteMetadata
  <2>2. CleanupNamespace \in Namespaces \cup {None}
    BY DEF TypeOK, Pass, Workspace, CleanupNamespace, Target
  <2>3. ASSUME NEW n \in Namespaces PROVE Relabelled(n)
    <3> DEFINE m == CleanupNamespace
    <3> HIDE DEF m
    <3>1. ns' = Unlabelled(m) /\ m \in Namespaces \cup {None} /\ m = CleanupNamespace
      BY <2>1, <2>2 DEF m
    <3> QED BY <2>1, <3>1, UnlabelledShape DEF Relabelled
  <2> QED BY <1>0, <1>1, <2>3
<1> QED BY <1>0, <1>2, <1>3, <1>4

\* UIDs stay unique, and no namespace is labelled with one that was not given yet.
LEMMA UidsStep ==
    ASSUME TypeOK, UidsUnique, PassCurrent, [Next]_vars
    PROVE  UidsUnique'
<1> USE LifecycleConstants DEF TypeOK, Workspace, Uid, NoWorkspace, UidsUnique
<1>0. p.pc # "idle" => p.w \in Names /\ p.obj.uid <= created /\ Target \in Namespaces
  BY DEF PassCurrent
<1>1. CASE ns' # ns
  <2>1. ASSUME NEW n \in Namespaces PROVE ns'[n].uid <= created
    <3>1. ns'[n].uid \in {0, ns[n].uid, p.obj.uid} /\ p.pc # "idle"
      BY <1>1, NsEffect DEF Relabelled
    <3> QED BY <1>0, <3>1
  <2> QED BY <1>1, <2>1, NsEffect
<1>2. CASE UNCHANGED <<ws, ns, created>>
  BY <1>2
<1>3. CASE Status
  BY <1>0, <1>3 DEF Status
<1>4. CASE DropFinalizer
  BY <1>0, <1>4 DEF DropFinalizer
<1>5. ASSUME NEW w \in Names, AddFinalizer(w) PROVE UidsUnique'
  BY <1>5 DEF AddFinalizer
<1>6. ASSUME NEW w \in Names, DeleteWs(w) PROVE UidsUnique'
  BY <1>6 DEF DeleteWs
<1>7. ASSUME NEW w \in Names, NEW n \in Namespaces, Retarget(w, n) PROVE UidsUnique'
  BY <1>7 DEF Retarget
<1>8. ASSUME NEW w \in Names, NEW n \in Namespaces, NEW adopt \in {None, n}, CreateWs(w, n, adopt) PROVE UidsUnique'
  BY <1>8 DEF CreateWs
<1>9. ASSUME NEW w \in Names, NEW n \in Namespaces, NEW adopt \in {None, n}, Annotate(w, adopt) PROVE UidsUnique'
  BY <1>9 DEF Annotate
<1> HIDE DEF UidsUnique
<1>10. \/ ns' # ns \/ Status \/ DropFinalizer \/ UNCHANGED <<ws, ns, created>>
       \/ \E w \in Names : AddFinalizer(w) \/ DeleteWs(w)
       \/ \E w \in Names, n \in Namespaces :
             Retarget(w, n) \/ \E adopt \in {None, n} : CreateWs(w, n, adopt) \/ Annotate(w, adopt)
  BY DEF Next, SyncStep, CleanupStep, vars, Rbac, ClusterQueue, LocalQueue, Identity, OldAccess, OldDrain, StaleQueues,
     DropQueues, DropAccess, Revoke, Drain, DeleteLocal, DeleteCluster, CallFails, Abort, Start, StartCleanup,
     Submit, Finish, Namespace, Activate, DropMetadata, DeleteMetadata
<1> QED BY <1>1, <1>2, <1>3, <1>4, <1>5, <1>6, <1>7, <1>8, <1>9, <1>10

-----------------------------------------------------------------------------
(* Ownership *)

\* Who writes a TauWorkspace writes nothing else that is shared.
LEMMA WsWriters ==
    ASSUME [Next]_vars, ws' # ws
    PROVE  /\ UNCHANGED <<ns, rb, lq, cq, work>>
           /\ \/ Status \/ DropFinalizer
              \/ UNCHANGED p /\ \E w \in Names : AddFinalizer(w) \/ DeleteWs(w)
              \/ UNCHANGED p /\ \E w \in Names, n \in Namespaces :
                    Retarget(w, n) \/ \E adopt \in {None, n} : CreateWs(w, n, adopt) \/ Annotate(w, adopt)
BY DEF Next, vars, SyncStep, CleanupStep, Namespace, Rbac, ClusterQueue, LocalQueue, Identity, OldAccess, OldDrain,
   StaleQueues, Activate, DropQueues, DropAccess, DropMetadata, Status, Revoke, Drain, DeleteLocal, DeleteCluster,
   DeleteMetadata, DropFinalizer, CallFails, Abort, Start, StartCleanup, AddFinalizer, DeleteWs, Submit, Retarget,
   Finish, CreateWs, Annotate

\* Researcher bindings are written by reconcileRBAC and
\* reconcileOwnedNamespaceResearcherAccess, in the name of the workspace that is
\* reconciled, and removed by the revocations.
LEMMA RbEffect ==
    ASSUME TypeOK, [Next]_vars, NEW n \in Namespaces
    PROVE  \/ rb'[n] = rb[n] \/ rb'[n] = NoBinding
           \/ p.pc \in SyncPc /\ rb'[n] = [ws |-> p.w, uid |-> p.obj.uid]
<1>1. CASE Rbac
  BY <1>1 DEF TypeOK, Rbac, SyncPc
<1>2. CASE Identity
  BY <1>2 DEF Identity, Revoked
<1>3. CASE DropAccess
  BY <1>3 DEF DropAccess, Revoked
<1>4. CASE Revoke
  BY <1>4 DEF Revoke, Revoked
<1>5. CASE OldAccess
  BY <1>5 DEF OldAccess, SyncPc
<1>6. UNCHANGED rb \/ Rbac \/ Identity \/ OldAccess \/ DropAccess \/ Revoke
  BY DEF Next, vars, SyncStep, CleanupStep, Namespace, ClusterQueue, LocalQueue, OldDrain, StaleQueues, Activate,
     DropQueues, DropMetadata, Status, Drain, DeleteLocal, DeleteCluster, DeleteMetadata, DropFinalizer, CallFails,
     Abort, Start, StartCleanup, AddFinalizer, DeleteWs, Submit, Retarget, Finish, CreateWs, Annotate
<1> QED BY <1>1, <1>2, <1>3, <1>4, <1>5, <1>6

\* LocalQueues are written for the workspace that is reconciled.
LEMMA LocalEffect ==
    ASSUME TypeOK, [Next]_vars, NEW n \in Namespaces, NEW w \in Names
    PROVE  \/ lq'[n][w] \in {lq[n][w], 0}
           \/ p.pc \in SyncPc /\ w = p.w /\ lq'[n][w] = p.obj.uid
<1>1. CASE LocalQueue
  BY <1>1 DEF TypeOK, LocalQueue, SyncPc
<1>2. CASE DropQueues
  BY <1>2 DEF TypeOK, DropQueues, WithoutQueues
<1>3. CASE DeleteLocal
  BY <1>3 DEF TypeOK, DeleteLocal, WithoutQueues
<1>4. UNCHANGED lq \/ LocalQueue \/ DropQueues \/ DeleteLocal
  BY DEF Next, vars, SyncStep, CleanupStep, Namespace, Rbac, ClusterQueue, Identity, OldAccess, OldDrain, StaleQueues,
     Activate, DropAccess, DropMetadata, Status, Revoke, Drain, DeleteCluster, DeleteMetadata, DropFinalizer,
     CallFails, Abort, Start, StartCleanup, AddFinalizer, DeleteWs, Submit, Retarget, Finish, CreateWs, Annotate
<1> QED BY <1>1, <1>2, <1>3, <1>4

\* So are ClusterQueues.
LEMMA ClusterEffect ==
    ASSUME TypeOK, [Next]_vars, NEW w \in Names
    PROVE  \/ cq'[w] \in {cq[w], 0}
           \/ p.pc \in SyncPc /\ w = p.w /\ cq'[w] = p.obj.uid
<1>1. CASE ClusterQueue
  BY <1>1 DEF TypeOK, ClusterQueue, SyncPc
<1>2. CASE DeleteCluster
  BY <1>2 DEF TypeOK, DeleteCluster
<1>3. UNCHANGED cq \/ ClusterQueue \/ DeleteCluster
  BY DEF Next, vars, SyncStep, CleanupStep, Namespace, Rbac, LocalQueue, Identity, OldAccess, OldDrain, StaleQueues,
     Activate, DropQueues, DropAccess, DropMetadata, Status, Revoke, Drain, DeleteLocal, DeleteMetadata,
     DropFinalizer, CallFails, Abort, Start, StartCleanup, AddFinalizer, DeleteWs, Submit, Retarget, Finish,
     CreateWs, Annotate
<1> QED BY <1>1, <1>2, <1>3

\* Bindings and queues are only made for the workspace that is reconciled, and
\* it exists; a workspace goes only when nothing is left of it.
LEMMA OwnedStep ==
    ASSUME TypeOK, UidsUnique, PassCurrent, Owned, NothingLeft, [Next]_vars
    PROVE  Owned'
<1> USE LifecycleConstants DEF TypeOK, Workspace, Binding, Uid, NoWorkspace, NoBinding, UidsUnique, Owned
<1>0. p.pc # "idle" => p.w \in Names /\ p.obj.uid = ws[p.w].uid /\ p.obj.uid # 0
  BY DEF PassCurrent
<1>1. CASE ws' = ws
  <2>0. p.pc \in SyncPc => p.w \in Names /\ p.obj.uid = ws[p.w].uid /\ p.obj.uid # 0
    BY <1>0 DEF SyncPc
  <2>1. ASSUME NEW n \in Namespaces, rb'[n] # NoBinding
        PROVE  rb'[n].ws \in Names /\ rb'[n].uid # 0 /\ rb'[n].uid = ws[rb'[n].ws].uid
    BY <2>0, <2>1, RbEffect
  <2>2. ASSUME NEW n \in Namespaces, NEW w \in Names, lq'[n][w] # 0 PROVE lq'[n][w] = ws[w].uid
    BY <2>0, <2>2, LocalEffect
  <2>3. ASSUME NEW w \in Names, cq'[w] # 0 PROVE cq'[w] = ws[w].uid
    BY <2>0, <2>3, ClusterEffect
  <2> QED BY <1>1, <2>1, <2>2, <2>3
<1>2. CASE Status
  BY <1>0, <1>2 DEF Status
<1>3. CASE DropFinalizer
  BY <1>0, <1>3 DEF DropFinalizer, NothingLeft, OwnsNoBinding, OwnsNoQueue, CleanupPc
<1>4. ASSUME NEW w \in Names, AddFinalizer(w) PROVE Owned'
  BY <1>4 DEF AddFinalizer
<1>5. ASSUME NEW w \in Names, DeleteWs(w) PROVE Owned'
  BY <1>5 DEF DeleteWs, NothingLeft, OwnsNoBinding, OwnsNoQueue
<1>6. ASSUME NEW w \in Names, NEW n \in Namespaces, Retarget(w, n) PROVE Owned'
  BY <1>6 DEF Retarget
<1>7. ASSUME NEW w \in Names, NEW n \in Namespaces, NEW adopt \in {None, n}, CreateWs(w, n, adopt) PROVE Owned'
  BY <1>7 DEF CreateWs
<1>8. ASSUME NEW w \in Names, NEW n \in Namespaces, NEW adopt \in {None, n}, Annotate(w, adopt) PROVE Owned'
  BY <1>8 DEF Annotate
<1> HIDE DEF Owned
<1> QED BY <1>1, <1>2, <1>3, <1>4, <1>5, <1>6, <1>7, <1>8, WsWriters

\* The step to the next phase of the cleanup is taken only when the phase is done.
LEMMA CleanupPhases ==
    ASSUME TypeOK, PassCurrent, CleanupStep, p' # Idle
    PROVE  /\ p.w \in Names /\ p'.w = p.w /\ p'.obj = p.obj
           /\ \/ Revoke /\ p'.pc = "drain" /\ \A n \in Namespaces : rb'[n].ws # p.w
              \/ Drain /\ p'.pc = "deleteLocal" /\ ~InUse(CleanupNamespace)
              \/ DeleteLocal /\ p'.pc = "deleteCluster" /\ \A n \in Namespaces : lq'[n][p.w] = 0
              \/ DeleteCluster /\ p'.pc = "deleteMetadata" /\ cq'[p.w] = 0
              \/ DeleteMetadata /\ p'.pc = "finalizer"
<1>0. /\ p \in Pass /\ p'.w = p.w /\ p'.obj = p.obj /\ p.w \in Names
  <2>1. p.pc # "idle"
    BY DEF CleanupStep, Revoke, Drain, DeleteLocal, DeleteCluster, DeleteMetadata, DropFinalizer
  <2> QED BY <2>1, PassShape DEF TypeOK, PassCurrent
<1>1. CASE Revoke
  <2>1. \A n \in Namespaces : rb[n].ws = p.w => Own(rb[n])
    BY <1>1 DEF Revoke
  <2>2. p'.pc = "drain"
    BY <1>0, <1>1, <2>1 DEF Revoke, Pass
  <2>3. ASSUME NEW n \in Namespaces PROVE rb'[n].ws # p.w
    <3>1. CASE Own(rb[n])
      BY <1>0, <1>1, <3>1, LifecycleConstants DEF Revoke, Revoked, NoBinding
    <3>2. CASE ~Own(rb[n])
      BY <1>1, <2>1, <3>2 DEF Revoke, Revoked
    <3> QED BY <3>1, <3>2
  <2> QED BY <1>0, <1>1, <2>2, <2>3
<1>2. CASE Drain
  BY <1>0, <1>2 DEF Drain, Pass
<1>3. CASE DeleteLocal
  <2>1. p'.pc = "deleteCluster" /\ \A n \in Namespaces : lq[n][p.w] \in {0, p.obj.uid}
    BY <1>0, <1>3 DEF DeleteLocal, Pass
  <2>2. ASSUME NEW n \in Namespaces PROVE lq'[n][p.w] = 0
    BY <1>0, <1>3, <2>1 DEF TypeOK, DeleteLocal, WithoutQueues, OwnQueues
  <2> QED BY <1>0, <1>3, <2>1, <2>2
<1>4. CASE DeleteCluster
  BY <1>0, <1>4 DEF TypeOK, DeleteCluster, Pass
<1>5. CASE DeleteMetadata
  BY <1>0, <1>5 DEF DeleteMetadata, Pass
<1>6. CASE DropFinalizer
  BY <1>6 DEF DropFinalizer
<1> QED BY <1>1, <1>2, <1>3, <1>4, <1>5, <1>6 DEF CleanupStep

\* cleanupWorkspaceAccess removes one kind of object after the other, and
\* nothing brings an earlier kind back.
LEMMA LeftStep ==
    ASSUME TypeOK, UidsUnique, PassCurrent, Owned, NothingLeft, [Next]_vars
    PROVE  NothingLeft'
<1> DEFINE Fresh == \A w \in Names : ws[w].st = "new" => OwnsNoBinding(w) /\ OwnsNoQueue(w) /\ cq[w] = 0
           Cleaned == /\ p.pc \in CleanupPc \ {"revoke"} => OwnsNoBinding(p.w)
                      /\ p.pc \in CleanupPc \ {"revoke", "drain", "deleteLocal"} => OwnsNoQueue(p.w)
                      /\ p.pc \in {"deleteMetadata", "finalizer"} => cq[p.w] = 0
<1>0. p.pc \in SyncPc => p.w \in Names /\ ws[p.w].st \in {"live", "deleting"}
  BY DEF PassCurrent, SyncPc
<1>1. Fresh'
  <2> SUFFICES ASSUME NEW w \in Names, ws'[w].st = "new"
               PROVE  /\ \A n \in Namespaces : rb'[n].ws # w /\ lq'[n][w] = 0
                      /\ cq'[w] = 0
    BY DEF OwnsNoBinding, OwnsNoQueue
  <2>1. CASE ws' = ws
    <3>1. p.pc \in SyncPc => p.w # w
      BY <1>0, <2>1
    <3>2. ASSUME NEW n \in Namespaces PROVE rb'[n].ws # w /\ lq'[n][w] = 0
      <4>1. rb[n].ws # w /\ lq[n][w] = 0
        BY <2>1 DEF NothingLeft, OwnsNoBinding, OwnsNoQueue
      <4>2. rb'[n].ws # w
        BY <3>1, <4>1, RbEffect, LifecycleConstants DEF NoBinding
      <4> QED BY <3>1, <4>1, <4>2, LocalEffect
    <3>3. cq'[w] = 0
      BY <2>1, <3>1, ClusterEffect DEF NothingLeft
    <3> QED BY <3>2, <3>3
  <2>2. CASE ws' # ws
    <3>1. UNCHANGED <<rb, lq, cq>>
      BY <2>2, WsWriters
    <3>2. ws[w].st \in {"new", "absent"}
      <4>1. CASE Status
        BY <4>1 DEF TypeOK, Status, Workspace
      <4>2. CASE DropFinalizer
        BY <4>2 DEF TypeOK, DropFinalizer, NoWorkspace, Workspace
      <4>3. ASSUME NEW v \in Names, AddFinalizer(v) \/ DeleteWs(v) PROVE ws[w].st \in {"new", "absent"}
        BY <4>3 DEF TypeOK, AddFinalizer, DeleteWs, NoWorkspace, Workspace
      <4>4. ASSUME NEW v \in Names, NEW n \in Namespaces, Retarget(v, n) PROVE ws[w].st \in {"new", "absent"}
        BY <4>4 DEF TypeOK, Retarget, Workspace
      <4>5. ASSUME NEW v \in Names, NEW n \in Namespaces, NEW adopt \in {None, n},
                   CreateWs(v, n, adopt) \/ Annotate(v, adopt)
            PROVE  ws[w].st \in {"new", "absent"}
        BY <4>5 DEF TypeOK, CreateWs, Annotate, Workspace
      <4> QED BY <2>2, <4>1, <4>2, <4>3, <4>4, <4>5, WsWriters
    <3>3. CASE ws[w].st = "new"
      BY <3>1, <3>3 DEF NothingLeft, OwnsNoBinding, OwnsNoQueue
    <3>4. CASE ws[w].st = "absent"
      BY <3>1, <3>4, LifecycleConstants DEF UidsUnique, Owned, TypeOK, Binding, NoBinding, Uid
    <3> QED BY <3>2, <3>3, <3>4
  <2> QED BY <2>1, <2>2
<1>2. Cleaned'
  <2>1. CASE p'.pc \notin CleanupPc \ {"revoke"}
    BY <2>1 DEF CleanupPc
  <2>2. CASE p' = p /\ p.pc \in CleanupPc \ {"revoke"}
    <3>1. p.w \in Names /\ p.pc \notin SyncPc
      BY <2>2 DEF PassCurrent, CleanupPc, SyncPc
    <3>2. \A n \in Namespaces : rb[n].ws # p.w => rb'[n].ws # p.w
      BY <3>1, RbEffect, LifecycleConstants DEF NoBinding
    <3>3. \A n \in Namespaces : lq[n][p.w] = 0 => lq'[n][p.w] = 0
      BY <3>1, LocalEffect
    <3>4. cq[p.w] = 0 => cq'[p.w] = 0
      BY <3>1, ClusterEffect
    <3> QED BY <2>2, <3>2, <3>3, <3>4 DEF NothingLeft, OwnsNoBinding, OwnsNoQueue
  <2>3. CASE CleanupStep /\ p' # Idle
    <3>1. p'.w = p.w /\ p.w \in Names
      BY <2>3, CleanupPhases
    <3>2. CASE Revoke /\ p'.pc = "drain" /\ \A n \in Namespaces : rb'[n].ws # p.w
      BY <3>1, <3>2 DEF OwnsNoBinding, CleanupPc
    <3>3. CASE Drain /\ p'.pc = "deleteLocal"
      BY <3>1, <3>3 DEF Drain, NothingLeft, OwnsNoBinding, CleanupPc
    <3>4. CASE DeleteLocal /\ p'.pc = "deleteCluster" /\ \A n \in Namespaces : lq'[n][p.w] = 0
      BY <3>1, <3>4 DEF DeleteLocal, NothingLeft, OwnsNoBinding, OwnsNoQueue, CleanupPc
    <3>5. CASE DeleteCluster /\ p'.pc = "deleteMetadata" /\ cq'[p.w] = 0
      BY <3>1, <3>5 DEF DeleteCluster, NothingLeft, OwnsNoBinding, OwnsNoQueue, CleanupPc
    <3>6. CASE DeleteMetadata /\ p'.pc = "finalizer"
      BY <3>1, <3>6 DEF DeleteMetadata, NothingLeft, OwnsNoBinding, OwnsNoQueue, CleanupPc
    <3> QED BY <2>3, <3>2, <3>3, <3>4, <3>5, <3>6, CleanupPhases
  <2> HIDE DEF Cleaned
  <2>4. p'.pc \in CleanupPc \ {"revoke"} => p' = p \/ (CleanupStep /\ p' # Idle)
    <3>1. CASE SyncStep \/ CallFails
      <4>1. p.pc \in SyncPc
        BY <3>1 DEF SyncStep, CallFails, SyncPc, Namespace, Rbac, ClusterQueue, LocalQueue, Identity, OldAccess,
           OldDrain, StaleQueues, Activate, DropQueues, DropAccess, DropMetadata, Status
      <4> QED BY <3>1, <4>1, PassShape DEF SyncPc, CleanupPc, Idle
    <3>2. ASSUME NEW w \in Names, Start(w) PROVE p'.pc = "namespace"
      BY <3>2 DEF Start, Idle
    <3>3. ASSUME NEW w \in Names, StartCleanup(w) PROVE p'.pc = "revoke"
      BY <3>3 DEF StartCleanup, Idle
    <3>4. CASE p' = Idle
      BY <3>4 DEF Idle, CleanupPc
    <3> QED BY <3>1, <3>2, <3>3, <3>4 DEF Next, CleanupPc, vars, Abort, AddFinalizer, DeleteWs, Submit, Retarget,
               Finish, CreateWs, Annotate
  <2>5. p'.pc \in CleanupPc \ {"revoke"} /\ p' = p => p.pc \in CleanupPc \ {"revoke"}
    OBVIOUS
  <2> QED BY <2>1, <2>2, <2>3, <2>4, <2>5
<1> QED BY <1>1, <1>2 DEF NothingLeft

-----------------------------------------------------------------------------
(* Labels *)

\* reconcileNamespace never takes a namespace whose owner exists: either the
\* owner UID is already the workspace's, or nobody has it any more.
LEMMA OwnerGone ==
    ASSUME TypeOK, UidsUnique, PassCurrent, LabelsAgree, p.pc # "idle", ~ns[Target].up \/ Claimable(Target)
    PROVE  ns[Target].uid \in {0, p.obj.uid} \/ \A w \in Names : ws[w].uid # ns[Target].uid
<1> SUFFICES ASSUME ns[Target].uid # 0, NEW w \in Names, ws[w].uid = ns[Target].uid
             PROVE  ns[Target].uid = p.obj.uid
  OBVIOUS
<1>1. /\ p.w \in Names /\ Target \in Namespaces /\ ws[p.w].uid = p.obj.uid
      /\ ns[Target].up /\ ns[Target].ws = w
  BY DEF PassCurrent, LabelsAgree
<1>2. w \in {None, p.w} \/ ws[w].st = "absent"
  BY <1>1 DEF Claimable
<1>3. ws[w].st # "absent"
  BY DEF UidsUnique
<1> QED BY <1>1, <1>2, <1>3, LifecycleConstants

\* The labels of the namespaces go on naming the workspace that has the owner UID.
LEMMA LabelsStep ==
    ASSUME TypeOK, UidsUnique, PassCurrent, LabelsAgree, [Next]_vars
    PROVE  LabelsAgree'
<1>1. CASE ns' # ns
  <2>1. ws' = ws /\ p.pc # "idle"
    BY <1>1, NsEffect
  <2>2. p.obj.uid = ws[p.w].uid /\ p.obj.uid # 0 /\ p.w \in Names
    BY <2>1 DEF PassCurrent
  <2>3. ASSUME NEW n \in Namespaces, ns'[n].uid # 0
        PROVE  ns'[n].up /\ \A w \in Names : ws[w].uid = ns'[n].uid => ns'[n].ws = w
    <3>1. CASE ns'[n] = ns[n]
      BY <2>3, <3>1 DEF LabelsAgree
    <3>2. CASE ns'[n].up /\ ns'[n].ws = p.w /\ ns'[n].uid = p.obj.uid
      BY <2>2, <3>2 DEF UidsUnique
    <3> QED BY <1>1, <2>3, <3>1, <3>2, NsEffect DEF Relabelled
  <2> QED BY <2>1, <2>3 DEF LabelsAgree
<1>2. CASE ns' = ns
  <2>1. ASSUME NEW n \in Namespaces, ns[n].uid # 0, NEW w \in Names, ws'[w].uid = ns[n].uid
        PROVE  ws[w].uid = ns[n].uid
    <3> USE <2>1 DEF TypeOK, Workspace, Uid
    <3>1. CASE Status
      BY <3>1 DEF Status
    <3>2. CASE DropFinalizer
      BY <3>2 DEF DropFinalizer, NoWorkspace
    <3>3. ASSUME NEW v \in Names, AddFinalizer(v) PROVE ws[w].uid = ns[n].uid
      BY <3>3 DEF AddFinalizer
    <3>4. ASSUME NEW v \in Names, DeleteWs(v) PROVE ws[w].uid = ns[n].uid
      BY <3>4 DEF DeleteWs, NoWorkspace
    <3>5. ASSUME NEW v \in Names, NEW m \in Namespaces, Retarget(v, m) PROVE ws[w].uid = ns[n].uid
      BY <3>5 DEF Retarget
    <3>6. ASSUME NEW v \in Names, NEW m \in Namespaces, NEW adopt \in {None, m}, CreateWs(v, m, adopt)
          PROVE  ws[w].uid = ns[n].uid
      <4>1. ns[n].uid <= created
        BY DEF UidsUnique
      <4> QED BY <3>6, <4>1, LifecycleConstants DEF CreateWs, NoWorkspace
    <3>7. ASSUME NEW v \in Names, NEW m \in Namespaces, NEW adopt \in {None, m}, Annotate(v, adopt)
          PROVE  ws[w].uid = ns[n].uid
      BY <3>7 DEF Annotate
    <3> QED BY <3>1, <3>2, <3>3, <3>4, <3>5, <3>6, <3>7, WsWriters
  <2> QED BY <1>2, <2>1 DEF LabelsAgree
<1> QED BY <1>1, <1>2

\* syncWorkspace goes on with a pass that is still good only in a namespace that
\* it has claimed, and nobody else labels namespaces meanwhile.
LEMMA TargetStep ==
    ASSUME TypeOK, PassCurrent, TargetClaimed, [Next]_vars
    PROVE  TargetClaimed'
<1> USE DEF TargetClaimed, Target
<1>0. /\ p \in Pass
      /\ p.pc # "idle" => Target \in Namespaces
  BY DEF TypeOK, PassCurrent
<1>1. CASE p'.pc \notin SyncPc
  BY <1>1 DEF SyncPc
<1>2. CASE p' = p /\ ns' = ns
  BY <1>2
<1>3. ASSUME NEW w \in Names, Start(w) PROVE TargetClaimed'
  BY <1>3 DEF Start, Idle
<1>4. CASE (SyncStep \/ CallFails) /\ p' # Idle
  <2>1. p.pc # "idle" /\ p'.w = p.w /\ p'.obj = p.obj /\ p'.pc # "namespace"
    <3>1. p.pc \in SyncPc
      BY <1>4 DEF SyncStep, CallFails, SyncPc, Namespace, Rbac, ClusterQueue, LocalQueue, Identity, OldAccess,
         OldDrain, StaleQueues, Activate, DropQueues, DropAccess, DropMetadata, Status
    <3> QED BY <1>4, <3>1, PassShape DEF SyncPc, CleanupPc
  <2>2. CASE Namespace
    <3>1. CASE ~ns[Target].up \/ Claimable(Target)
      <4>1. ns' = Claimed(Target, FALSE) /\ p'.pc = "rbac"
        BY <1>0, <2>2, <3>1 DEF Namespace, Pass
      <4> QED BY <1>0, <2>1, <4>1, ClaimedShape
    <3>2. CASE ~(~ns[Target].up \/ Claimable(Target))
      <4>1. p'.pc = "identity" /\ p'.ready = p.ready /\ p.pc = "namespace"
        BY <1>0, <2>2, <3>2 DEF Namespace, Pass
      <4> QED BY <4>1
    <3> QED BY <3>1, <3>2
  <2>3. CASE Activate
    <3>1. CASE ~ns[Target].up \/ Claimable(Target)
      <4>1. ns' = Claimed(Target, TRUE) /\ p'.pc = "dropQueues"
        BY <1>0, <2>3, <3>1 DEF Activate, Pass
      <4> QED BY <1>0, <2>1, <4>1, ClaimedShape
    <3>2. CASE ~(~ns[Target].up \/ Claimable(Target))
      <4>1. p'.pc = "status" /\ ~p'.ready
        BY <1>0, <2>3, <3>2 DEF Activate, Pass
      <4> QED BY <4>1
    <3> QED BY <3>1, <3>2
  <2>4. CASE DropMetadata
    <3>1. p'.pc = "status" /\ p'.ready = p.ready /\ p.pc = "dropMetadata"
      BY <1>0, <2>4 DEF DropMetadata, Pass
    <3>2. ns'[Target] = ns[Target]
      <4>1. CASE ns' # ns
        BY <1>0, <2>1, <3>1, <4>1, NsEffect DEF Relabelled
      <4> QED BY <4>1
    <3> QED BY <2>1, <3>1, <3>2 DEF SyncPc
  <2>5. CASE OldDrain
    <3>1. ns' = ns /\ p'.pc \in {"staleQueues", "status"} /\ (p'.ready => p.ready)
          /\ (p'.pc = "staleQueues" <=> p'.ready) /\ p.pc = "oldDrain"
      BY <1>0, <2>5 DEF OldDrain, Pass
    <3> QED BY <2>1, <3>1 DEF SyncPc
  <2>6. CASE StaleQueues
    <3>1. ns' = ns /\ p'.pc \in {"activate", "status"} /\ p.pc = "staleQueues"
      BY <1>0, <2>6 DEF StaleQueues, Pass
    <3> QED BY <2>1, <3>1 DEF SyncPc
  <2>7. CASE CallFails
    <3>1. ns' = ns /\ p.pc \in SyncPc /\ p'.pc \notin {"namespace", "staleQueues"}
      BY <1>0, <2>7 DEF CallFails, Pass, SyncPc
    <3>2. p'.ready => p.ready /\ p.pc # "namespace"
      BY <1>0, <2>7 DEF CallFails, Pass
    <3> QED BY <2>1, <3>1, <3>2
  <2>8. CASE Rbac \/ ClusterQueue \/ LocalQueue \/ Identity \/ OldAccess \/ DropQueues \/ DropAccess
    <3>1. ns' = ns /\ p.pc \in SyncPc \ {"namespace", "staleQueues"}
      BY <2>8 DEF Rbac, ClusterQueue, LocalQueue, Identity, OldAccess, DropQueues, DropAccess, SyncPc
    <3>2. p'.pc # "staleQueues" /\ (p'.ready => p.ready)
      <4>1. CASE Rbac
        BY <1>0, <4>1 DEF Rbac, Pass
      <4>2. CASE ClusterQueue
        BY <1>0, <1>4, <4>2 DEF ClusterQueue, Pass
      <4>3. CASE LocalQueue
        BY <1>0, <4>3 DEF LocalQueue, Pass
      <4>4. CASE Identity
        BY <1>0, <4>4 DEF Identity, Pass
      <4>5. CASE OldAccess
        BY <1>0, <4>5 DEF OldAccess, Pass
      <4>6. CASE DropQueues \/ DropAccess
        BY <1>0, <4>6 DEF DropQueues, DropAccess, Pass
      <4> QED BY <2>8, <4>1, <4>2, <4>3, <4>4, <4>5, <4>6
    <3> QED BY <2>1, <3>1, <3>2
  <2>9. CASE Status
    BY <1>4, <2>9 DEF Status
  <2> HIDE DEF TargetClaimed
  <2> QED BY <1>4, <2>2, <2>3, <2>4, <2>5, <2>6, <2>7, <2>8, <2>9 DEF SyncStep
<1>5. CASE CleanupStep
  <2>1. p.pc \in CleanupPc
    BY <1>5 DEF CleanupStep, CleanupPc, Revoke, Drain, DeleteLocal, DeleteCluster, DeleteMetadata, DropFinalizer
  <2>2. p'.pc \notin SyncPc
    BY <1>5, <2>1, PassShape DEF SyncPc, CleanupPc, Idle
  <2> QED BY <1>1, <2>2
<1>6. CASE p' = Idle
  BY <1>1, <1>6 DEF Idle, SyncPc
<1>7. ASSUME NEW w \in Names, StartCleanup(w) PROVE TargetClaimed'
  BY <1>1, <1>7 DEF StartCleanup, Idle, SyncPc
<1> HIDE DEF TargetClaimed
<1> QED BY <1>2, <1>3, <1>4, <1>5, <1>6, <1>7 DEF Next, vars, Abort, AddFinalizer, DeleteWs, Submit, Retarget,
           Finish, CreateWs, Annotate

\* A status names a namespace only after the workspace has claimed it, and a
\* claim by another workspace takes the label with the UID.
LEMMA ResolvedStep ==
    ASSUME TypeOK, UidsUnique, PassCurrent, TargetClaimed, ResolvedAgrees, [Next]_vars
    PROVE  ResolvedAgrees'
<1>0. p.pc # "idle" => p.w \in Names /\ p.obj.uid = ws[p.w].uid /\ Target \in Namespaces
  BY DEF PassCurrent
<1>1. CASE ns' # ns
  <2>1. ws' = ws /\ p.pc # "idle"
    BY <1>1, NsEffect
  <2>2. ASSUME NEW w \in Names, ws[w].resolved # None, ns'[ws[w].resolved].ws = w
        PROVE  ns'[ws[w].resolved].uid = ws[w].uid
    <3> DEFINE n == ws[w].resolved
    <3>1. n \in Namespaces
      BY <2>2 DEF TypeOK, Workspace
    <3>2. ns[n].ws = w => ns[n].uid = ws[w].uid
      BY <2>2 DEF ResolvedAgrees
    <3> HIDE DEF n
    <3>3. ns'[n].ws = w => ns'[n].uid = ws[w].uid
      BY <1>0, <1>1, <2>1, <3>1, <3>2, NsEffect, LifecycleConstants DEF Relabelled
    <3> QED BY <2>2, <3>3 DEF n
  <2> QED BY <2>1, <2>2 DEF ResolvedAgrees
<1>2. CASE ns' = ns /\ ws' # ws
  <2>1. CASE Status
    <3>1. p.ready /\ p.pc = "status" /\ ws' = [ws EXCEPT ![p.w].resolved = Target]
      BY <1>2, <2>1 DEF Status
    <3>2. ns[Target].uid = p.obj.uid
      BY <3>1 DEF TargetClaimed, SyncPc
    <3>3. ws'[p.w].resolved = Target /\ ws'[p.w].uid = ws[p.w].uid /\ p.w \in Names
          /\ \A w \in Names \ {p.w} : ws'[w] = ws[w]
      BY <1>0, <3>1 DEF TypeOK, Workspace
    <3>4. ASSUME NEW w \in Names PROVE ws'[w].resolved # None /\ ns[ws'[w].resolved].ws = w =>
                                          ns[ws'[w].resolved].uid = ws'[w].uid
      <4>1. CASE w = p.w
        BY <1>0, <3>1, <3>2, <3>3, <4>1
      <4>2. CASE w # p.w
        BY <3>3, <4>2 DEF ResolvedAgrees
      <4> QED BY <4>1, <4>2
    <3> QED BY <1>2, <3>4 DEF ResolvedAgrees
  <2> DEFINE Same(w) == ws'[w].resolved = None \/ (ws'[w].resolved = ws[w].resolved /\ ws'[w].uid = ws[w].uid)
  <2>2. ASSUME NEW w \in Names, ~Status PROVE Same(w)
    <3> USE DEF TypeOK, Workspace
    <3>1. CASE DropFinalizer
      BY <3>1 DEF DropFinalizer, NoWorkspace
    <3>2. ASSUME NEW v \in Names, AddFinalizer(v) PROVE Same(w)
      BY <3>2 DEF AddFinalizer
    <3>3. ASSUME NEW v \in Names, DeleteWs(v) PROVE Same(w)
      BY <3>3 DEF DeleteWs, NoWorkspace
    <3>4. ASSUME NEW v \in Names, NEW n \in Namespaces, Retarget(v, n) PROVE Same(w)
      BY <3>4 DEF Retarget
    <3>5. ASSUME NEW v \in Names, NEW n \in Namespaces, NEW adopt \in {None, n}, CreateWs(v, n, adopt)
          PROVE  Same(w)
      BY <3>5 DEF CreateWs, NoWorkspace
    <3>6. ASSUME NEW v \in Names, NEW n \in Namespaces, NEW adopt \in {None, n}, Annotate(v, adopt)
          PROVE  Same(w)
      BY <3>6 DEF Annotate
    <3> HIDE DEF Same
    <3> QED BY <1>2, <2>2, <3>1, <3>2, <3>3, <3>4, <3>5, <3>6, WsWriters
  <2> QED BY <1>2, <2>1, <2>2 DEF ResolvedAgrees
<1>3. CASE ns' = ns /\ ws' = ws
  BY <1>3 DEF ResolvedAgrees
<1> QED BY <1>1, <1>2, <1>3

\* Between the drain check of cleanupWorkspaceAccess and the deletion of the
\* queues no work comes in: the binding is gone.
LEMMA DrainedStep ==
    ASSUME TypeOK, PassCurrent, NothingLeft, ResolvedAgrees, Drained, [Next]_vars
    PROVE  Drained'
<1> SUFFICES ASSUME p'.pc = "deleteLocal", p'.obj.resolved # None,
                    <<p'.obj.resolved, p'.w>> \in work', Routed(p.obj.resolved, p.w)'
             PROVE  FALSE
  BY DEF Drained
<1>1. CASE p' = p
  <2> DEFINE n == p.obj.resolved
  <2>1. p.w \in Names /\ ws[p.w] = p.obj /\ n \in Namespaces /\ OwnsNoBinding(p.w)
    BY <1>1 DEF PassCurrent, CleanupPc, NothingLeft, TypeOK, Pass, Workspace
  <2>2. UNCHANGED <<lq, cq, ns>>
    <3>1. CASE SyncStep \/ CallFails
      BY <1>1, <3>1 DEF SyncStep, CallFails, Namespace, Rbac, ClusterQueue, LocalQueue, Identity, OldAccess,
         OldDrain, StaleQueues, Activate, DropQueues, DropAccess, DropMetadata, Status
    <3>2. CASE CleanupStep
      <4>1. p' # Idle
        BY DEF Idle
      <4> QED BY <1>1, <3>2, <4>1, CleanupPhases DEF Drain
    <3>3. ASSUME NEW w \in Names, Start(w) \/ StartCleanup(w) PROVE FALSE
      BY <1>1, <3>3 DEF Start, StartCleanup
    <3> QED BY <1>1, <3>1, <3>2, <3>3 DEF Next, vars, Abort, AddFinalizer, DeleteWs, Submit, Retarget, Finish,
               CreateWs, Annotate
  <2>3. <<n, p.w>> \in work
    <3>1. CASE UNCHANGED work
      BY <1>1, <3>1
    <3>2. ASSUME NEW w \in Names, Submit(w) PROVE <<n, p.w>> \in work
      <4>1. w # p.w
        BY <2>1, <3>2 DEF Submit, OwnsNoBinding, TypeOK, Workspace, Binding
      <4> QED BY <1>1, <3>2, <4>1 DEF Submit
    <3>3. ASSUME NEW w \in Names, NEW m \in Namespaces, Finish(m, w) PROVE <<n, p.w>> \in work
      BY <1>1, <3>3 DEF Finish
    <3>4. UNCHANGED work \/ (\E w \in Names : Submit(w)) \/ \E w \in Names, m \in Namespaces : Finish(m, w)
      BY DEF Next, vars, SyncStep, CleanupStep, Namespace, Rbac, ClusterQueue, LocalQueue, Identity, OldAccess,
         OldDrain, StaleQueues, Activate, DropQueues, DropAccess, DropMetadata, Status, Revoke, Drain, DeleteLocal,
         DeleteCluster, DeleteMetadata, DropFinalizer, CallFails, Abort, Start, StartCleanup, AddFinalizer,
         DeleteWs, Retarget, CreateWs, Annotate
    <3> QED BY <3>1, <3>2, <3>3, <3>4
  <2> QED BY <1>1, <2>2, <2>3 DEF Drained, Routed
<1>2. CASE Drain /\ p' # Idle
  <2> DEFINE n == p.obj.resolved
  <2>1. p'.w = p.w /\ p'.obj = p.obj /\ p.w \in Names /\ ~InUse(CleanupNamespace)
    BY <1>2, CleanupPhases DEF CleanupStep, Drain, Revoke, DeleteLocal, DeleteCluster, DeleteMetadata
  <2>2. CleanupNamespace = n /\ ws[p.w] = p.obj
    BY <1>2, <2>1 DEF CleanupNamespace, PassCurrent, Drain, CleanupPc
  <2>3. <<n, p.w>> \in work /\ lq[n][p.w] # 0 /\ ns[n].ws = p.w
    BY <1>2, <2>1 DEF Drain, Routed
  <2>4. ns[n].uid = p.obj.uid
    BY <2>1, <2>2, <2>3 DEF ResolvedAgrees
  <2> QED BY <2>1, <2>2, <2>3, <2>4 DEF InUse
<1>3. CASE CleanupStep /\ ~Drain /\ p' # Idle
  BY <1>3, CleanupPhases
<1>4. CASE SyncStep \/ CallFails
  <2>1. p.pc \in SyncPc
    BY <1>4 DEF SyncStep, CallFails, SyncPc, Namespace, Rbac, ClusterQueue, LocalQueue, Identity, OldAccess,
       OldDrain, StaleQueues, Activate, DropQueues, DropAccess, DropMetadata, Status
  <2> QED BY <1>4, <2>1, PassShape DEF SyncPc, CleanupPc, Idle
<1>5. CASE p' = Idle
  BY <1>5 DEF Idle
<1>6. ASSUME NEW w \in Names, Start(w) \/ StartCleanup(w) PROVE FALSE
  BY <1>6 DEF Start, StartCleanup, Idle
<1> QED BY <1>1, <1>2, <1>3, <1>4, <1>5, <1>6 DEF Next, vars, Abort, CleanupStep, AddFinalizer, DeleteWs, Submit,
           Retarget, Finish, CreateWs, Annotate

-----------------------------------------------------------------------------
(* The theorems *)

\* The invariant holds at the start ...
LEMMA InitInv == Init => LifecycleInv
<1> SUFFICES ASSUME Init PROVE LifecycleInv
  OBVIOUS
<1>1. TypeOK
  BY LifecycleConstants, ConstantsType DEF Init, TypeOK
<1> QED BY <1>1, LifecycleConstants DEF Init, LifecycleInv, UidsUnique, PassCurrent, Owned, NothingLeft, LabelsAgree,
           TargetClaimed, ResolvedAgrees, Drained, Idle, NoWorkspace, NoBinding, OwnsNoBinding, OwnsNoQueue,
           SyncPc, CleanupPc, Uid

\* ... and every step keeps it.
LEMMA NextInv == LifecycleInv /\ [Next]_vars => LifecycleInv'
BY TypeStep, PassStep, UidsStep, OwnedStep, LeftStep, LabelsStep, TargetStep, ResolvedStep, DrainedStep
   DEF LifecycleInv

\* Type correctness: the state of the API server and of the TauWorkspace
\* reconciler stays within the declared types.
THEOREM LifecycleTypeCorrect == Spec => []TypeOK
<1>1. LifecycleInv => TypeOK
  BY DEF LifecycleInv
<1> QED BY <1>1, InitInv, NextInv, PTL DEF Spec

\* No researcher binding, LocalQueue or ClusterQueue outlives its TauWorkspace,
\* whatever the workspace was doing when it was deleted, whichever call of the
\* reconcile failed and however often the controller restarted.
THEOREM NothingOutlives == Spec => []NothingSurvives
<1>1. LifecycleInv => NothingSurvives
  <2> SUFFICES ASSUME LifecycleInv PROVE NothingSurvives
    OBVIOUS
  <2>1. ASSUME NEW w \in Names, ws[w].uid # 0 PROVE Alive(ws[w].uid)
    BY <2>1 DEF LifecycleInv, UidsUnique, Alive
  <2> QED BY <2>1 DEF LifecycleInv, Owned, NothingSurvives
<1> QED BY <1>1, InitInv, NextInv, PTL DEF Spec

\* Isolation: reconcileNamespace and the cleanup never hand a namespace of a
\* TauWorkspace that exists to another one.
THEOREM NamespacesIsolated == Spec => NamespaceKept
<1> DEFINE Kept == \A n \in Namespaces : ns[n].uid # 0 /\ Alive(ns[n].uid) => ns'[n].uid \in {ns[n].uid, 0}
<1>1. LifecycleInv /\ [Next]_vars => [Kept]_vars
  <2> SUFFICES ASSUME LifecycleInv, [Next]_vars, NEW n \in Namespaces, ns[n].uid # 0, Alive(ns[n].uid)
               PROVE  ns'[n].uid \in {ns[n].uid, 0}
    OBVIOUS
  <2>1. CASE ns' # ns
    <3>1. \E w \in Names : ws[w].uid = ns[n].uid
      BY DEF Alive
    <3>2. p.pc # "idle" /\ Relabelled(n)
      BY <2>1, NsEffect DEF LifecycleInv
    <3>3. n = Target /\ (~ns[n].up \/ Claimable(n)) => ns[n].uid = p.obj.uid
      BY <3>1, <3>2, OwnerGone DEF LifecycleInv
    <3> QED BY <3>2, <3>3 DEF Relabelled
  <2> QED BY <2>1
<1> QED BY <1>1, InitInv, NextInv, PTL DEF Spec, NamespaceKept

\* cleanupWorkspaceAccess takes neither the queues nor the labels from work that
\* still has them in the namespace of the status, although the researcher may
\* submit until his binding is revoked.
THEOREM RoutesKept == Spec => CleanupKeepsRoutes
<1> DEFINE Kept == \A w \in Names, n \in Namespaces :
                      p.pc \in CleanupPc /\ <<n, w>> \in work /\ n = ws[w].resolved /\ Routed(n, w) => Routed(n, w)'
<1>1. LifecycleInv /\ [Next]_vars => [Kept]_vars
  <2> SUFFICES ASSUME LifecycleInv, [Next]_vars, NEW w \in Names, NEW n \in Namespaces,
                      p.pc \in CleanupPc, <<n, w>> \in work, n = ws[w].resolved, Routed(n, w)
               PROVE  Routed(n, w)'
    OBVIOUS
  <2>1. p.w \in Names /\ ws[p.w] = p.obj
    BY DEF LifecycleInv, PassCurrent, CleanupPc
  <2>2. CASE DeleteLocal
    <3>1. w # p.w
      BY <2>1, <2>2, LifecycleConstants DEF LifecycleInv, Drained, DeleteLocal
    <3> QED BY <2>2, <3>1 DEF LifecycleInv, TypeOK, DeleteLocal, WithoutQueues, Routed
  <2>3. CASE DeleteCluster
    <3>1. w # p.w
      BY <2>3 DEF LifecycleInv, NothingLeft, OwnsNoQueue, DeleteCluster, CleanupPc, Routed
    <3> QED BY <2>3, <3>1 DEF LifecycleInv, TypeOK, DeleteCluster, Routed
  <2>4. CASE ns' # ns
    <3>1. p.pc = "deleteMetadata" /\ UNCHANGED <<lq, cq>> /\ Relabelled(n)
      BY <2>4, NsEffect DEF LifecycleInv, CleanupPc
    <3>2. w # p.w
      BY <3>1 DEF LifecycleInv, NothingLeft, OwnsNoQueue, CleanupPc, Routed
    <3> QED BY <3>1, <3>2 DEF Relabelled, Routed
  <2>5. UNCHANGED <<lq, cq, ns>> \/ DeleteLocal \/ DeleteCluster \/ ns' # ns
    BY DEF Next, vars, SyncStep, CleanupStep, CleanupPc, Namespace, Rbac, ClusterQueue, LocalQueue, Identity, OldAccess,
       OldDrain, StaleQueues, Activate, DropQueues, DropAccess, DropMetadata, Status, Revoke, Drain,
       DeleteMetadata, DropFinalizer, CallFails, Abort, Start, StartCleanup, AddFinalizer,
       DeleteWs, Submit, Retarget, Finish, CreateWs, Annotate
  <2> QED BY <2>2, <2>3, <2>4, <2>5 DEF Routed
<1> QED BY <1>1, InitInv, NextInv, PTL DEF Spec, CleanupKeepsRoutes

=============================================================================
