# Specifications of TauGrid

TLA+ models of the parts of TauGrid in which several actors, failures or restarts
meet: the quota, shared-pool and workspace reconcilers of the tau-core controller, the
experiment metrics collector, and the experiment store with its artifact offload. TLC
checks them on small instances; TLAPS proves the safety properties of all of them for every value of the
constants, two of the collector's under a condition on its surroundings that they need.

`PROJECT.json` lists the components, the runs, the source lines each definition
models, the hazards, the findings and the theorems.

## The system

TauGrid runs GPU jobs of many teams on Kubernetes, with Kueue as the admission
queue. Its parts, the state they keep and what makes them hard:

| Part | State | Operations | Hard because | Must hold |
|---|---|---|---|---|
| Quota reconcilers (`controllers/tau-core`: `team_controller`, `workspace_queue`, `quota_*`) | TauTeam and TauWorkspace objects, Kueue Cohorts and ClusterQueues, an in-process mutex | reconcile team, reconcile workspace, finalize either | users edit and Kueue admits during a reconcile; several writes, each of which may fail; controller restarts | quota is not handed out twice, stays within the capacity, never falls below reservations; no orphans; teams and workspaces do not block one another |
| Capacity pool, shared pool (`capacity_pool`, `shared_team_pool`) | the same, one Cohort for all or one parent | one reconcile writes every Cohort and queue, holds all queues on failure | many writes, none atomic | guarantees within supply; held queues are released again, and only those TauGrid held |
| Workspace lifecycle (`workspace_*`) | namespaces, RBAC, LocalQueues, labels, status | sync, migrate, clean up | cleanup waits for running work; ownership by UID against recreated objects | nothing of a foreign workspace is deleted; cleanup ends |
| Cluster discovery (`cluster_*`) | TauCluster status, ResourceFlavors, Topologies | reconcile | nodes come and go | flavors in use stay |
| Metrics collector (`metrics/experiment-metrics-collector`) | checkpoint, one pending chunk, sentinels | start, replay, drain, deliver, shut down | crashes between any two writes, late and lost answers of ADX, SIGTERM, a workload that writes meanwhile | every row and every status reaches ADX exactly once, status last; the spool can always be replayed |
| Sidecar wrapper (`cli/internal/metricsoffload`) | ready, completion and done sentinels | wait, run, report | timeouts on both sides | done means reported |
| GPU health checker, GPU metrics collector (`monitoring`) | SQLite samples, rule states | collect, prune, query, evaluate | a writer and readers at once; flapping | no alert lost or stuck |
| Portal store, capture, artifact offload (`portal/internal`) | SQLite database with JSONL mirrors, blob checkpoint | init, record, capture, upload | two kinds of storage in one operation | mirrors agree with the database; reruns are idempotent |
| CLI (`cli/internal`) | workspace connections, rendered manifests | connect, run, resume | file-locked state with rollback | an interrupted switch is undone |
| Core (`core`) | none | run phases, queue selection, telemetry schema | many cases | the phase follows the Kubernetes objects |

They interact through the Kubernetes API (controllers, CLI, Kueue), through files
in a shared volume (workload, wrapper, collector) and through ADX (collector,
portal). The charts, images, documentation, the Python SDK and the request
handlers of the portal hold no state of their own and are not modelled.

## Modules

| Module | What it is |
|---|---|
| `TeamQuota` | the explicit-quota mode of the TauTeam and TauWorkspace reconcilers |
| `TeamQuotaProofs` | its theorems |
| `QuotaSums`, `QuotaSumsProofs` | sums of quotas over a finite set, for both quota modes, and the facts about them |
| `NaturalOrder` | a set of naturals has a least element, a bounded one a greatest |
| `MCTeamQuota` | its symmetry set for TLC; the instances are the `Quota*.cfg` |
| `MetricsSpool` | the metrics collector with its spool, ADX and the workload around it |
| `MetricsSpoolProofs` | its theorems |
| `MCMetricsSpool` | what a history may hold at the start; the instances are the `Spool*.cfg` |
| `SharedPool` | the shared-quota mode: one pass over all teams and workspaces, and the holds when it fails |
| `SharedPoolProofs` | its theorems |
| `WorkspaceLifecycle` | the TauWorkspace reconciler: namespace, RBAC, queues, moves, deletion |
| `WorkspaceLifecycleProofs` | its theorems |
| `ExpStore` | the experiment store: write lock, transaction, JSONL mirrors, idempotency keys, `import jsonl` |
| `IdempotentLedger` | what the store promises its callers, as an abstract specification |
| `ArtifactOffload` | the artifact watcher on top of `ExpStore` (which it extends), with the workload beside it |
| `ArtifactOffloadProofs`, `MirrorProofs` | the theorems about the store and the watcher: refinement and index, mirrors |
| `MCArtifactOffload` | requests, file contents and symmetry for TLC |

### TeamQuota

`team` and `ws` are the API objects, `cohort` and `cq` what Kueue sees. Two
goroutines, `tw` and `ww`, are the two reconcilers; every field of theirs is a
local variable of `Reconcile` or `reconcileWorkspaceClusterQueue`, and `pc` is the
next call to the API server that matters. Calls that can fail or see another
state are separate steps: reading the team, validating, checking the accounting
snapshot again, each write. `lock` is the mutex with the key `capacity-pool`, which
every call of `lockTeamQuota` takes besides its own keys.

* `TeamLock` .. `TeamReportReady` are `TauTeamReconciler.Reconcile`, `TeamFinalize`
  .. `TeamRemoveFinalizer` are `finalizeTeam`. A write with the object's
  resourceVersion (status, finalizer) is refused when the team has changed since
  it was read (`fresh`).
* `WsRead` .. `WsWriteCohortAfter` are `reconcileWorkspaceClusterQueue` with its
  two paths (the ordinary one, and the reduction of a queue in a team that is not
  Ready or overcommitted); `WsCleanupLock` .. `WsRemoveFinalizer` are the deletion.
* `TeamAbort`, `WsAbort` are a failing API call or a restart: the goroutine forgets
  everything and its locks are free.
* `Reserve`, `Release` are Kueue as the code relies on it; `CreateTeam` .. `DeleteWs` are
  users.

Quotas are natural numbers for one pair of resource and flavor, because the code
treats the pairs separately. Not modelled: the capacity pool modes, retained queues
of earlier releases and undeclared resources (`preserveEstablishedWorkspaceQueueContract`),
flavor validation, object ownership by UID, namespaces and RBAC.

### MetricsSpool

A history is a sequence of tokens (a row, a row without metrics, a torn row, a
newline), an offset together with its prefix digest is the prefix itself, and a chunk
is a record of what it covers and of the time it was projected (`stamp`), which is
part of the payload and so of its digest. `ckpt` and `pending` are the files on disk,
`run.mem` the checkpoints in memory, `queued` and `table` are ADX. Each durable
write, each delivery attempt and each look at a sentinel is a step of its own; a
write that fails may have had its effect (`writeFileDurable` fails after the rename).

* `Start`, `Replay`, `TakeBaseline`, `PublishReady`: the beginning of `Run`.
* `Poll`, `Sleep`: the watch loop; `DrainStart`, `Read`, `Rebind`, `Skip`, `DrainDone`: `drain`.
* `Spool`, `Submit`, `Delivered`, `AttemptFails`, `DeliveryCancelled`, `Save`,
  `RemovePending`: one chunk, for `drain`, `publishCompletion` and `replaySpool`.
* `PublishStatus`, `PublishDone`, `Await`, `Recheck`: `finishCompleted` and
  `finishCancelled`.
* `IOFails`: any other call that fails.
* `Crash` (the process ends, and histories lose what was not synced), `Signal`, `Write`,
  `Complete`, `Expire`, `NewAttempt`, `Replace`, `Ingest`: the surroundings.

Not modelled: one-shot mode, a changed configuration, unreadable files, several
collectors on one directory, a directory entry that a power loss takes back after
`fsync` of the directory has failed, sentinels that survive a pod.

### SharedPool

`team`, `ws`, `cohort`, `cq` are the objects as in `TeamQuota`; a queue also has Kueue's
stop policy and the annotation that says the controller has set it (`ours`). `p` is the
one reconcile that holds the quota mutex: `applySharedTeamPool`, `holdSharedTeamQueues`, a team's
finalization and a workspace's cleanup all take it, so they never overlap.

* `ListTeams`, `ListWorkspaces`, `CheckPool`: the reads and checks of a pass, each from a list that
  is read at that moment and used until the end.
* `ApplyCohort`, `RecoverHold`, `ReadQueue`, `WriteQueue`: its writes, one object at a time; a Cohort that
  exists is only compared, never changed.
* `HoldList`, `HoldNext`: what follows every error of a pass (`CallFails` is an API call that fails).
* `FinalizeTeam` .. `DropWsFinalizer`: the two finalizers.
* `Reserve`, `Release` are Kueue; `sound` stands for the checks of the parent Cohort, the
  inventory and the flavors, which change with the nodes.

Not modelled: the exclusive capacity pool (`applyCapacityPool`, `withdrawCapacityPool`) and the
switch between the modes, more than one resource and flavor, lending limits.

### WorkspaceLifecycle

`ns`, `rb`, `lq` and `cq` are the labels of the namespaces, the researcher RoleBindings, the
LocalQueues and the ClusterQueues, each with the UID of the TauWorkspace it was made for. `work`
is unfinished work by namespace and queue name. A pass (`Namespace` .. `Status`) is
`syncWorkspace`: an error in it is remembered (`ready`, `clean`) and the pass goes on
as far as the code lets it. `Revoke` .. `DropFinalizer` are `cleanupWorkspaceAccess`.

Assumed: reads through the cache are current; one reconcile at a time (`MaxConcurrentReconciles`
is 1); namespaces are never deleted; `createNamespace` is set. Not modelled: compatibility
LocalQueues and the recovery of their routes, ownership from before UIDs, ServiceAccounts, ClusterWide
authorization, Kueue's finalizer on the ClusterQueue (`SharedPool` has it).

### ExpStore, IdempotentLedger and ArtifactOffload

`db` is the SQLite database (idempotency keys, the run's state and experiment, metric files,
artifact rows), `mirror` the JSONL logs, `disk` the files, `lock` the store's write lock, `proc` the
importing processes. `ImportJSONL` writes its files before it takes the lock (`OpenFile`, `FillFile`),
reads the run (`ReadExisting`), then, under the lock, looks up the key, inserts, appends to the mirrors line by line,
commits, and removes its files after any error. A crash releases the lock and rolls SQLite back. A transaction that
fails takes its lines back, each of which may fail (`RolledBack`). The lines that either leaves
in the mirrors are remembered in `stray`. When the release of the lock fails after a commit (`withWriteLock`),
the import is on record although it is told that it failed (the second half of `Commit`).

The run's experiment (`db.exp`) is set by every import and every `track` (`Sorted`), by
`AssignRunToExperiment` (`Assign`) and before every search (`EnsureIndex`). None of them writes a line for
it, so `MirrorsAgree` is about the keys, the metric files, the artifacts with their references and the state of
the run, and not about the experiment.

`IdempotentLedger` has a ledger of keys, the recorded contents, and for each caller a pending
request and an answer. A request is accepted with its whole content and its key at once, reused, or
refused; one that is told "failed" may have been accepted. `LedgerKept` says that `ExpStore` implements it: `ledger` is `db.key`, `recorded` is what
importers have put into the database, `pending` and `answer` are the caller's.

`ArtifactOffload` is a pass of `artifactoffload.Run` (`Begin` .. `SaveCheckpoint`), the index update under
the store's lock (`IndexLock` .. `IndexFails`) and the watch loop (`Check`, `Restart`). The file
of an artifact is read twice, to hash it and to upload it, and may change between the two. `Track` and
`Edit` are the workload, which may write a completion file if the command has been given one (`CompletionFile`). A watcher that is interrupted between
two artifacts saves the checkpoint it has, one that is killed does not (`WatcherDies`).

Abstractions: one run; `Track` and `Enrich` are atomic under the lock; the mirrors of tags, configurations
and summaries, which are written like the others, are left out; a file that is read while
it is rewritten has just another digest; requests do not name an experiment, nor do their tags, but a run read before the
lock comes with its own. An object is named by type, name and digest (`ref.go:69-101`), in the model by artifact and
digest: it is about artifacts that differ in type or name. `--max-size-bytes` (`offload.go:204`) is off, as by
default. A line is appended whole or not at all: a write that is cut short by a crash, and then joined by the
next line, is left out. Not modelled: `offload metrics --watch`, cluster capture, the
Azure client, migrations, search and export.

## Runs

| Run | Shows |
|---|---|
| `QuotaReservations` | one team, two workspaces, borrowing, reservations at any time, racing edits, one fault: `TypeOK`, `BudgetHeld`, `ReservationWithinMaximum` |
| `QuotaCapacity` | two teams, one workspace that may migrate, two edits, also of teams in the middle of their reconcile, one fault: `MembershipIntact`, `TeamWriteWithinCapacity` |
| `QuotaTeamsConverge` | two teams exchange a full capacity: `Converges` |
| `QuotaOvercommit` | violation of `CapacityRespected` |
| `SpoolCrash` | two histories, one fault, one SIGTERM: all safety properties and `Reported` |
| `SpoolPods` | two pods, old rows, metadata rows, a replaced history: `TypeOK`, `NothingOld`, `NothingLost`, `StatusLast` |
| `SharedPool` | two teams, one workspace, four edits, a changing supply, one fault: `TypeOK`, `TreeIntact`, `OpensWithinSupply`, `HoldsFollow` |
| `WorkspaceLifecycle` | two workspaces, two namespaces, three UIDs, four edits, one submission, one fault: `TypeOK`, `NothingSurvives`, `NamespaceKept`, `CleanupKeepsRoutes` |
| `WorkspaceMoves` | one workspace, two faults: `MoveEnds`, `DeletionEnds` |
| `StoreLedger` | two importers, three requests with colliding keys and contents, assignments to experiments, one fault: `TypeOK`, `MirrorsAgree`, the refinement `LedgerKept` |
| `OffloadEnds` | one importer, one copied and one tracked artifact, a rewritten file, one fault: `OnlyIntactIndexed`, `IdentityKept`, `OffloadEnds` |
| `FinalDrain` | violation of `FinalDrain` |

### Bounds

Two teams and one workspace, or one team and two workspaces, are the smallest
instances in which teams compete for the capacity, or workspaces for a team's quota,
and in which a workspace migrates. Quotas of up to two units tell a
reduction from a removal. Two edits are enough for an exchange, and one fault to
interrupt any of the writes. The theorems do not depend on any of these bounds.

Two histories of two tokens make a drain span two chunks and end in an
unterminated or torn row; one history of four tokens gives several chunks of one
file and a metadata row between them. One fault hits every call of every path once.
`MaxAttempts` is one or two: a delivery that is retried and one that is not.

In `SharedPool` two teams are needed for a queue to move and for guarantees to add up, and
four edits to create a team and a workspace, move the one and delete the other. With two workspaces
the temporal property takes too long on two teams; on one team (`Teams = {1}`, `Workspaces = {1, 2}`: several
queues to write and to hold) all four properties hold as well, and so do the three safety
properties on two teams and two workspaces. `WorkspaceLifecycle` needs two names for a
namespace to be contested and three UIDs for a name to be used again beside another workspace. One
submission is enough because work is told apart only by where it is.

Three requests are the smallest set with a retry, another key for the same content, and the same key
for another content. Two artifacts are needed for deduplication.

The reconcilers have states without a successor (all objects deleted, no edits left), so deadlock
is not checked there. For the collector and the artifact watcher, which poll for ever, it is.

### Fairness

`TeamQuota`: a reconcile that has begun goes on (`WF`); controller-runtime retries failed
requests, watches requeue changed objects and a periodic requeue (`readyRequeue`,
`notReadyRequeue`) brings back every other one, so each object is handed out again and again,
and Go's mutex is starvation-free (`SF` on taking it). Users and Kueue owe
nothing. `Converges` promises something only for quotas that can be satisfied
(`Feasible`), without a pending migration.

`MetricsSpool`: the process runs, ADX works off its queue, and a collector that has
stopped is started again. The last is the Job's doing (another pod, `backoffLimit`) and not
unlimited in practice; `Reported` is about a collector that is started often
enough. The workload owes nothing: `Reported` is conditional on its having ended with
histories that `project` accepts.

`SharedPool`, `WorkspaceLifecycle`: as for `TeamQuota`. `MoveEnds` and `DeletionEnds` also rely on
admitted work coming to an end (`WF` on `Finish`, which needs the work's queues and labels).

`ArtifactOffload`: the watcher polls for ever and is started again by its Deployment
(`renderArtifactOffloadAgentManifest`); a process that has called the store goes on. Calls, edits and
faults owe nothing.

## What the runs found

1. **Overcommitted capacity** (`QuotaOvercommit`). In `reconcileWorkspaceClusterQueue` the
   capacity check and the Ready check are skipped for any queue that asks for no more than it has,
   also an unchanged one. The Cohort is then written from the team's present
   `spec.quota`, although the TauTeam reconciler has just refused it.
2. **No final drain** (`FinalDrain`). `runArtifactOffloadWatch` looks for the completion file only after
   a pass (`exp_offload_artifacts.go:138`), so artifacts recorded during that pass are in none; the flag promises
   "one final drain". Restarted by its Deployment, the command drains them then.

Also observed while modelling, with no run of their own.

Quota and pools:

* `team_controller.go:143`: the team is read before, the list of teams for the capacity check after
  an edit, so that the checked and the written quota differ. The next reconcile repairs it;
  `TeamWriteWithinCapacity` is about writes that no edit has overtaken.
* An administrator who moves quota and a workspace between two full teams at once has to take an
  intermediate step, because the workspace counts in both teams until its queue has moved.
* `capacity_pool.go:315`: an operator's stop policy that is set between this read and the
  update is overwritten (the workspace reference says such policies are kept, `workspace.md:107`).
* `team_controller.go:38`: a pass begins with a team or a workspace that is not deleting. When only deleting ones
  are left, the controller's Hold stays on their queues, although recovery "also clears controller-owned Holds on
  existing deleting-workspace queues" (`workspace.md:112`).

Workspaces:

* `workspace_sync.go:134` and `:197`: work submitted to the old namespace between the drain check and the
  removal of its LocalQueue is not admitted any more.
* If the LocalQueue or RBAC cleanup of a move fails, `cleanupStaleNamespaceMetadata` still unlabels the
  old namespace; work that arrives there then keeps its LocalQueue without the labels and blocks the move.
* A workspace that is deleted in the middle of a move drains only the namespace of its status, and the
  labels of the other namespace stay; so do they when a workspace is pointed back to where it was.

Collector:

* `collector.go:397`: `drain` changes the checkpoint in memory before it is saved for rows
  without metrics; if the save fails during a shutdown, a chunk is spooled that no restart accepts.
  `SpoolCrash` has no such rows.
* `collector.go:386`: if the save of a rebind fails during a shutdown after the new file is in place, and the history
  gets its old inode back before it is read again, the chunk that is spooled then does not follow the checkpoint file, and
  no restart accepts it. It takes two replacements; `SpoolCrash` has none.
* `collector.go:628`: shutdown collects the trailing row of a workload that still runs. Its newline is an empty
  line to the next collector, which refuses the file.
* `collector.go:298`: if reading the spool fails at the first start and SIGTERM has come, the
  shutdown drains without a baseline, old rows included.
* A torn last line keeps a finished run from being reported (the collector fails closed); a second
  cancellation of the same configuration is never reported, because its observation ID is that of the first.

Store and offload:

* `jsonl_import.go:192`: after a conflict the import removes the files it has written, also when an earlier
  import has recorded the same paths. (`exp_track.go:169` removes only what it has created.)
* `parquet.WriteFile` and `copyFile` rewrite files in place: a crash tears one that is recorded.
* A crash between the append to a mirror and the commit leaves the line, and so does a rollback that fails
  (`store.go:1134` drops the error, `record.go:120` reports it). `MirrorsAgree` is about the others.
* `runs.jsonl` does not follow `runs.experiment_id`: `record.go:86` sets it in the transaction of an import
  (`experiment.go:534`, `:543`), `experiment.go:138` and `:518` outside of one, all without a line, and the line of an
  enrichment has no experiment at all. Where the ADX schema calls "the local expstore/index append log" authoritative
  (`adx_export.go:280`), that holds for what `MirrorsAgree` lists; which experiment a run is in only the database knows.
* `jsonl_import.go:173`: an import reads the run before it takes the lock and sets the experiment it has read
  (`experiment.go:455`). An assignment in between is undone.
* `store.go:133`: an import that was committed is told that it failed when the lock cannot be released, and removes its
  files. A retry with the same key writes them again.
* If `Verify` of a known object fails once and the file is rewritten between hash and upload, the upload
  overwrites an object that is indexed.
* `offload.go:221-287`: of three artifacts with the same bytes, one may be given a reference by deduplication whose
  object is overwritten later in the same pass (two failing `Verify` calls and a rewritten file). The index then gets the
  reference; the checkpoint says "failed", so that the object is uploaded again. `OnlyIntactIndexed` allows this and no
  other reference to an object with other bytes.

## Proofs

Every theorem is about `Spec` (so also `FairSpec`) and rests on the named assumptions about the constants only:
finite sets, natural bounds, and model values that differ from one another. The bounds of the runs appear in none of
them. Each safety property has an inductive invariant, stated as a conjunction of named parts.

### Quota (`TeamQuotaProofs`, from `ConstantsAssumption`)

* `TypeCorrect`: `Spec => []TypeOK`. It needs `LockDiscipline` (whoever is past its lock
  holds the mutex and works on an object) because the Cohort quota a goroutine carries is
  only known to be natural after the sign check.
* `ReservationsSafe`: `Spec => []ReservationWithinMaximum`.
* `MembershipSafe`: `Spec => []MembershipIntact`. The inductive invariant is
  `MembershipInv`: the lock discipline, and what each goroutine knows of its objects at
  each step (`TeamKnowledge`, `WsKnowledge`), for example that no queue is in the Cohort that
  `finalizeTeam` is about to delete. It holds because both reconcilers do this under the lock.
* `BudgetSafe`: `Spec => []BudgetHeld`. `BudgetInv` adds that a Cohort quota about to
  be written leaves room for what the team's queues hold (`TeamBudget`), and for the
  workspace goroutine also for the queue it will write next (`WsBudget`): the
  larger of what a workspace asks for and what it holds was subtracted, and queues
  only shrink while the lock is held by somebody else.
* `CapacitySafe`: `Spec => TeamWriteWithinCapacity`. `CapacityInv` adds that a write that has been validated and
  that no edit has overtaken either lowers the Cohort's quota or fits beside what the other teams hold (`WriteFits`), and
  that a team without finalizer holds nothing (`CohortOwned`), so that a team that appears or goes takes nothing along.

Sums over sets are cardinalities of disjoint unions (`Units`), so that the facts about them
(`QuotaSumsProofs`) come from `FiniteSetTheorems` without induction.

### Shared pool (`SharedPoolProofs`, from `PoolConstants`)

* `PoolTypeCorrect`, `TreeSafe` (`Spec => []TreeIntact`), `OpensSafe` (`Spec => OpensWithinSupply`).

`PoolInv` says what the lists of a pass still mean when they are used: every existing Cohort is of a listed team
(`ListsCover`) and has, once the pass has gone past it, the guarantee that was listed (`CohortsApplied`); the queues are
attached to Cohorts that exist, also the ones about to be written (`QueuesAttached`); a team whose Cohort is about to be
deleted has no queue (`FinalizedUnused`). From these follows that the tree fits the supply before the first queue is
opened (`TreeReady`), although users edit teams all the time: a Cohort that exists is never changed.

### Workspaces (`WorkspaceLifecycleProofs`, from `LifecycleConstants`)

* `LifecycleTypeCorrect`, `NothingOutlives` (`Spec => []NothingSurvives`), `NamespacesIsolated`
  (`Spec => NamespaceKept`), `RoutesKept` (`Spec => CleanupKeepsRoutes`).

`LifecycleInv` says that UIDs are unique (`UidsUnique`); that what a reconcile read at its start is stale only in what a user
may edit, never in the identity (`PassCurrent`); that every binding and queue belongs to the workspace whose name it carries
(`Owned`); and what is gone after each step of the cleanup (`NothingLeft`). For namespaces: the labels name the owner of the
UID beside them (`LabelsAgree`, `ResolvedAgrees`), a pass that goes well has claimed its target (`TargetClaimed`), and between
the drain check and the deletion of the LocalQueue no routed work comes in (`Drained`), because the binding has
been revoked before.

### Store and offload (`ArtifactOffloadProofs`, `MirrorProofs`, from `StoreAssumption` and `WatcherAssumption`)

* `StoreImplementsLedger`: `Spec => LedgerKept`, the refinement of `IdempotentLedger`, also with the watcher beside the
  importers. Under `CoreInv` (whoever is in a transaction has the file lock; a key that a transaction found free is
  free until it commits) `Commit` is the acceptance, the answer of a known key is the reuse, and every other step is
  a stutter or a refusal.
* `IndexedIntact`: `Spec => OnlyIntactIndexed`, and `DigestsKept`: `Spec => IdentityKept`. `IndexInv`
  relates the rows, the checkpoint, and the references collected in a pass: an update that is not of a failed entry names an
  object with the digest that is going to be recorded.
* `MirrorsSafe`: `Spec => []MirrorsAgree`, and `StoreTypeCorrect`: `Spec => []TypeOK`. The lines of the mirrors are
  those of the transaction under way, those a crash or a failed rollback has left, and the settled ones. `MirrorInv` says
  that the first are at the end of their files (`HeldAtEnd`), so that truncation takes nothing else, that they are what the
  transaction inserts (`HeldWrites`), and that the settled lines agree with the tables (`SettledAgree`). The theorem
  is about the rows that have lines: keys, metric files, artifacts and their references, the state of the run.
  It says nothing of the run's experiment, and exempts the lines in `stray`.

### Collector (`MetricsSpoolProofs`, from `ConstantsAssumption`)

Every theorem but the last two holds for any number of histories, pods, delivery attempts, faults, signals and
replacements, with and without a baseline and rows without metrics. The steps are first described by what they do to the
process, the disk and ADX (`ReadEffect`, `SaveEffect`, ...), and the invariants build on one another:

* `SpoolTypeCorrect`: `Spec => []TypeOK`. `ControlInv` says which caller can be at which step (`Phases`), when the end of the
  workload has been seen (`Ending`), what chunks look like (`Shapes`), and that the spool holds at most one of them, namely
  the one under way or what the next replay has to deal with (`SpoolHeld`).
* `SpoolCheckpointGrows`: `Spec => CheckpointGrows`. `MemoryInv` adds that the checkpoints in memory are those of the file, but
  for a shutdown that goes on after a failed save (`Mirrored`, `Stopping`): then the file is behind by rows without metrics, or
  ahead by exactly the chunk that is in the spool. Without the second case the invariant is not inductive: a failed write may
  have had its effect.
* `SpoolPrefixKept`: `Spec => []PrefixKept`. `Kept`: whatever a checkpoint, the spool, ADX or the process itself covers of a
  history is on stable storage.
* `SpoolNothingLost`: `Spec => []NothingLost`. `LossInv` adds that a chunk is in the table before it is saved (`InTable`), that
  the rows below the offsets in the file and in memory are in the table (`Stored`), and that the baseline was taken of an
  untouched history (`Fresh`, `Prepared`).
* `SpoolNothingTwice`: `Spec => []NothingTwice`. Every chunk ADX has heard of is in the spool or acknowledged by the file
  (`Sent`), and all of them are disjoint (`Separate`), because a new one begins where the last acknowledged one ends.
* `SpoolStatusLast`: `Spec => []StatusLast`. `StatusInv` adds what a drain has covered when it is over (`Drains`), that a
  status chunk exists only when all rows are in (`Reports`), that every terminal of a checkpoint is in the table
  (`Reflected`), and that `done` follows it (`Ends`). It relies on the workload writing nothing after its completion sentinel.
* `SpoolNothingOld`: `Spec => []NothingOld` if `SignalBudget = 0`. `OldInv`: without a shutdown nobody goes on without
  the baseline (`Awaited`, `Skips`), so chunks begin behind it (`Young`). With a signal the property does not hold
  (`collector.go:298` above).
* `SpoolReplayed`: `Spec => []SpoolRecoverable` if `Undisturbed`: nobody signals the collector, or histories are not replaced and
  all their rows have metrics. `RecoverInv`: the chunk under way is one `advanceCheckpointForManifest` accepts
  (`Accepted`), the one in the spool is acknowledged by the file or comes next after it (`Answers`), and in a shutdown
  memory and file differ by the chunk in the spool at most (`Level`). Signals together with rows without metrics, or with two
  replacements, violate it (`collector.go:397` and `:386` above): TLC finds both when such constants are given to `SpoolCrash.cfg`, with four tokens
  and two faults.

### Only model-checked

* Liveness (`Converges`, `Reported`, `HoldsFollow`, `MoveEnds`, `DeletionEnds`, `OffloadEnds`), which is out of the prover's
  reach.

## Not modelled

Cluster discovery (its result is a constant or an input of the quota models), observers that write one
status, the GPU health checker and the GPU metrics collector, cluster capture, the CLI's rendering, its connection
manager and the run phases of `core`, the request handlers of the portal, the telemetry encoding, the Python
SDK, charts and images. Most of this is sequential transformation of one document or query into
another: a model would repeat the code and no interleaving or failure would be in it. The candidates for a
further module are the rule states of the GPU metrics collector (`state.json`) and the file-locked connection
manager of the CLI.

## Plan

What is left to prove is liveness, which the prover cannot do. What is left to model: the exclusive capacity pool and
the switch between the quota modes, one-shot mode and a changed configuration of the collector, and the two candidates named
above.
