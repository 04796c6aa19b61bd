# Verification of openshift-fake-gpu-operator

TLA+ modules for the operator's control logic, TLC configurations that check
them on small instances, and TLAPS proofs for instances of any size. File and
line references are to the repository at the modelled commit;
`fakegpuconfig_controller.go` is `internal/controller/fakegpuconfig_controller.go`.

## 1. The system

The operator reconciles cluster-scoped `FakeGPUConfig` objects. For each it
writes about twenty child objects, labels the nodes the config selects, writes a
topology ConfigMap per node and reports in the status. On deletion it undoes all
of that behind a finalizer.

| Component | State it keeps | Operations | Interacts through |
|---|---|---|---|
| `Reconcile` (controller, 74-467) | the copy of the config it works on, `isOpenShift` memo | read, add finalizer, Helm check, resolve profile, about twenty create-or-updates, label nodes, write node topologies, update status | API calls; reads from informer caches |
| `handleDeletion` (469-570) | the same copy | list and delete children by label, unlabel nodes, delete cluster-scoped children by name, release the finalizer | API calls; lists from caches |
| Watches and queue (`SetupWithManager`, 600-641) | caches, deduplicating work queue | config events, node events mapped by `nodeToFakeGPUConfig`, requeue on error, resync | events from the API server |
| Rendering (`internal/resources`) | none (pure) | one function per child | called by `Reconcile` |
| Images (`internal/resources/images.go`) | environment variables | `Image`, `imageFor` | called by rendering |
| Profiles (`internal/profiles`) | constant table | `Get` | called by `resolveProfile` |
| API types (`api/v1alpha1`) | spec, status, finalizer, deletion timestamp | | stored by the API server |
| Operator permissions (rbac markers, 57-72; `config/rbac/role.yaml`) | the manager role | decides every write, roles with more rights than the writer's included | the API server |
| Manager (`cmd/main.go`, `config/manager/manager.yaml`) | where the process is in `main`; the lease | set-up, leader election, readiness, SIGTERM, fatal ends, rolling update | the lease; the Deployment |
| Status updater (external image) | allocations in node topologies | enter an allocation | the ConfigMaps the operator writes too |
| Users, kubelets, Helm (external) | configs, nodes, children, Helm objects | create, edit, delete, join, leave, relabel, install | the API server |

What is hard here. Every decision is made on a cached read and every write may be
refused, fail, or be applied without an answer; configs, nodes and children are
changed by others between any two calls; the process may die anywhere, and two
pods run during an update; some errors are dropped on purpose; several configs
share object names. The hazards are listed, line by line, in `PROJECT.json`.

What makes it correct, per component:

* `Reconcile`: nothing is written for a config without its finalizer; Available
  describes what is deployed; no edit of a spec is undone; all disturbances are got
  over in the end.
* `handleDeletion`: nothing is left behind; workloads never outlive their
  accounts; it ends; other configs are not touched.
* Both together: a config goes through its phases in order, and its children
  come and go with them (`Lifecycle`).
* Watches: the operator does not come to rest while something is missing.
* Rendering: references between children resolve, every object can be found again
  at deletion, DaemonSets have nodes to run on, privileged pods have the SCC on
  OpenShift, images follow the documented priority.
* Permissions: the manager role covers every call the operator makes.
* Manager: one active controller at a time; a rolling update comes to its end.

## 2. Modules

| Module | Models |
|---|---|
| `FakeGPUConfig` | the meaning of a spec: profiles, switches, labels, selection, images |
| `Resources` | every child as a record, the order of the writes (`Plan`) and of the deletions (`DeletionOrder`, `ClusterScoped`) |
| `Permissions` | the rules of the rendered roles and of the manager role, the API server's decision on a write |
| `Operator` | the controller, its caches and queue, the API server, the rest of the world; the properties |
| `Lifecycle` | abstract: phases, children and report of a config, without caches, passes or calls |
| `Refinement` | the mapping from `Operator` to `Lifecycle` |
| `Manager` | the processes of `main`, their lease, their Deployment |
| `Claims` | statements of README and messages that the code does not keep |
| `Rendering` | what the pure modules promise together, evaluated on one probe (config, node, spec, labels, OpenShift or not) at a time |
| `OperatorProofs`, `RefinementProofs`, `ThoroughProofs`, `LabelProofs`, `DeployedProofs` | theorems about `Operator`, each module on top of those before it |
| `PlanProofs`, `RenderingProofs` | lemmas about `Plan` and the children in it; theorems about `Rendering` |
| `ManagerProofs` | theorems about `Manager` |
| `MCOperator`, `MCRendering`, `MCManager` | small instances |

Each of `FakeGPUConfig`, `Resources`, `Permissions`, `Operator` extends the one
before it; `Operator` composes them with the API server and the environment.
`Refinement` instantiates `Lifecycle` twice, for an operator that is thorough in
its cleanup and for one that need not be. `Manager` is separate: what it
establishes, that one manager is active, is what `Operator` assumes of its worker,
and `Restart` in `Operator` is what a change of the leader looks like from there.

### State and actions of `Operator`

`cfg`, `node`, `store` are the server's configs, nodes and children; `seenCfg`,
`seenNode`, `seen` the caches. `pc`, `cur`, `copy`, `pos`, `listed` are the
worker's program counter and local variables: `copy` is the Go variable `cfg`,
`listed` the `nodeList.Items` still to be handled. `queue` is the work queue,
`isOpenShift` the memo, `helm` what the caches show of a Helm installation.

One action is one API call with the code around it:

| Action | Code |
|---|---|
| `Take` | Get, its failure, and the two branches on deletion and finalizer, 78-89 |
| `AddFinalizer` | 89-94, with what the API server makes of the spec (below) |
| `CheckHelm`, `ReportHelmConflict`, `RejectProfile` | 96-119, 196-239 |
| `Apply`, `DetectOpenShift` | one `createOrUpdate` of 121-183; 355-365 |
| `ListMatching`, `LabelNode`, `ListPool`, `WriteTopology`, `UpdateStatus` | 374-467 |
| `DeleteLabelled`, `ListLabelled`, `UnlabelNode`, `DeleteClusterScoped`, `Release` | 469-570 |
| `ListFails` | the error return after each List of nodes |
| `Requeue`, `SyncConfig`, `SyncNode`, `SyncKind`, `Resync` | controller-runtime, as `SetupWithManager` configures it |
| `UserCreates/Edits/Deletes`, `NodeJoins/Leaves`, `UserRelabels`, `HelmChanges`, `Restart` | the environment |
| `OthersDelete`, `StatusUpdaterAllocates` | somebody deletes a child; the status updater enters an allocation. `Owns` (603-607) finds no owner reference and enqueues nobody |

Versions. `Update` carries the resourceVersion of the copy it was made from. For
configs and nodes the model keeps exactly that: `lag` holds the objects whose
cached version is not the server's, `stale` those whose working copy is not, and
`SameVersion` is the server's check. For children, whose copy lives only within
one `createOrUpdate`, equality of content stands for equality of version.

The Update of `AddFinalizer` sends the whole config. The component switches are
`omitempty` with a default of true (`fakegpuconfig_types.go`, 83-101): a switch that
is false is not sent, the API server puts its default, and the answer is decoded into
the copy that the pass goes on with. So a `devicePlugin`, `metricsExporter`,
`topologyServer` or `statusUpdater` that is switched off when the config is created
is on again after the first pass (`WrittenBack`), as in the example of README:148 and the
`custom` samples of `config/samples`; switched off in a later edit, it stays off, as
no other Update of the operator changes a spec (`NoEditLost`). The status goes
through the status subresource. The properties are about the spec as it is stored;
that switches stay as they were given is not among them, because they do not.

Failures. A call named in `Faulty` may fail, and a failing write may or may not
have been applied. Deletions that fail keep one object, or all of a kind when the
List failed. A failing Get (`get`) ends the pass with an error, and a failing List in
`nodeToFakeGPUConfig` (`watch`, 615-617) loses the node's event for every config, as
seen by the watch of the old and of the new object separately.

Permissions. `createOrUpdate` succeeds only if `Permitted`: the identity of the
manager holds the verb on the kind and, for a role or a binding, all the rules of
that role. `Grants` is what it holds: `ManagerRole`, as the markers say, in
`manager_role`; everywhere else `AmendedRole`, which adds `patch` on pods. With
the role as shipped no pass gets beyond the status updater's role (see the run
`manager_role`), and nothing else could be studied. An installation that gives the
manager more rights, or an API server without RBAC, behaves like `AmendedRole`.

### The refinement

| `Lifecycle` | in `Operator` |
|---|---|
| `phase[c]` | absent, new, guarded or terminating, from presence, finalizer and deletion timestamp of `cfg[c]` |
| `present[c]` | a child that carries the config's name is in `store` (`OwnIds`; ConfigMaps and the RuntimeClass are shared by configs and not counted) |
| `report[c]` | the status of `cfg[c]` |
| `drift` | `budget["drift"]` |

Environment steps map to `Create`, `Terminate`, `Discard` and `Drift`,
`AddFinalizer` to `Guard`, `Release` to `Finish`, `Apply` to `Build`, the
deletions to `Clean`, the status updates to `Report`, all else to stuttering. What
is not obvious: that `Apply` never runs for a config that is gone or new, that a
deletion never runs for one that is in use, and that a conflict on the
resourceVersion stops a late status or finalizer write, although all of these act
on caches. With `Thorough`, `Finish` needs all own children gone.

### State and actions of `Manager`

`state` says for each pod where its process is in `main`: before `mgr.Start`,
candidate, leader, a leader that got SIGTERM, a leader that lost the lease. The
lease is `holder` and `age`. `LeaderElectionReleaseOnCancel` is not set in
`main.go`, so that a lease is never released, only left to expire; a restarted
process has a new identity and waits for that as well. `wanted` and `desired` are
the Deployment: one replica, hence a surge of one pod and none unavailable.
`Ready` is `readyz`, a `Ping`, which a pod that is not the leader passes: without
that an update would wait for the old leader, which waits for the update (the
mutant `Ready_OnlyLeader`).

Time is the age of the lease. `RenewDeadline` stands for the retry period and the
renew deadline together, 2 s and 10 s by default, against a `LeaseDuration` of
15 s. `Tick` waits for what has a deadline: a leader that has not renewed by
`RenewDeadline` gives up, and its process has ended before `LeaseDuration`. This
is an assumption on the scheduling of the process that controller-runtime makes
too: a process suspended between the two would run its reconcilers next to the
new leader's.

### Abstractions

* A cache that syncs jumps to the server's current state; what it skips are
  intermediate events of the same object, which the queue would merge anyway.
* The caches of kinds not in `Lagging` are read as the server's state (`View`,
  `Fresh`); each run names the kinds whose lag it studies.
* Deletions of one kind in `handleDeletion`, and those of cluster-scoped objects,
  are one step each. Nothing but the worker reads children, and it does not between
  two of them; a crash in between is covered by the failure of a part.
* `helm` is changed by the environment directly: the Helm check reads it once per
  pass.
* Node labels are a function on the label keys that occur; strings of names,
  YAML documents and messages are records or tuples of their parts.
* Reads are always permitted. That the manager role allows them is a property of
  its own (`RoleCoversCalls`). Of secrets, which the role may `list` but not
  `watch`, the cache is renewed by lists only; `helm` abstracts from how.
* An allocation in a node topology is present or not; which pod holds which GPU
  does not matter to what the operator does, which is to overwrite it.
* Other finalizers, removal of the operator's finalizer by hand, and edits of
  children by others, deletion and allocation aside, are not modelled.
* Disturbances are limited by `budget`, one counter for each kind: edits of
  configs, changes of nodes, Helm changes, failing calls, crashes, changes of
  children. A behaviour starts with one of `Budgets`. The theorems hold for every
  set of budgets.

## 3. Runs

Passing runs (distinct states; time with two workers).

| Run | Checks | Instance and bounds |
|---|---|---|
| `stale_caches` (273 k, 40 s) | `TypeOK`, `ProvisionsUnderFinalizer`, `RestsOnlyWhenDone`, `ImplementsLifecycle`, `NoEditLost` | one config, one node, two profiles with switches off, caches of configs and nodes lag; three edits (create, edit or delete, recreate) and one node event at any point |
| `cleanup` (487 k, 75 s) | `NoOrphans`, `NoLeftoverLabels`, `WorkloadHasAccount`, `AvailableMeansDeployed`, `ImplementsThoroughLifecycle` | one config, one node, OpenShift, a lean and a full spec and another selector, config cache lags; three edits, one failing call outside the deletions, one crash |
| `convergence` (113 k, 85 s) | `Converges`, `DeletionCompletes` | a valid and an invalid spec, two edits, resync; and either a node that joins at any point and any one call failing, or two Helm changes, or one edit with two Helm changes and any one call failing, or the node and one child deleted or one allocation entered |
| `two_pools` (78 k, 70 s) | `AvailableMeansDeployed`, `ChildrenIsolated`, `NodesIsolated`, `OwnPartsConverge` | two configs with disjoint selectors, two nodes, the cache of ConfigMaps lags; three edits, resync |
| `rendering` (767, 6 s) | `PlanInOrder`, `DaemonSetsHaveNodes`, `DeletionCoversPlan`, `PrivilegedHaveSCC`, `RoleCoversCalls`, `WatchCoversSelection`, `ImagePriority` | every combination of switches, MIG, custom GPU, OpenShift; of selectors and node labels; of image settings |
| `manager` (40 k, 5 s) | `OneActive`, `RolloutCompletes` | three pods, `LeaseDuration` 4, `RenewDeadline` 3, two crashes or failing starts, one outage of the API server, two rollouts |

Users give each config any of the instance's specs; the specs also contain what
`WrittenBack` makes of them. In `two_pools` each config keeps the one selector that
makes the pools disjoint, so that edits of a spec under a running pass, which
`AvailableMeansDeployed` is about as well, are the matter of `cleanup`: there a config is
edited between three specs at any point.

Three edits are the least that reach deletion followed by recreation, which is
where stale caches could mislead. The cache of children lags in `two_pools`, where both
configs write, overwrite and delete the shared ConfigMaps: a create, an update and
a deletion each meet a cache that does not show the last one. One node suffices for the interleavings of a
pass with events of a node, as nodes are handled independently; two are used where
configs interact. `TypeOK` contains the only interesting part of typing: a pass
has a copy, and a valid profile once it renders. In `manager`, three pods are the
old one, the new one and one more rollout in the middle of the first; four ticks
are the least with a lease that is fresh, due, given up and expired.

Deadlock checking is off in the `MCOperator` runs: with the budget spent and the
queue empty, the operator rests (`Quiescent`), which is what
`RestsOnlyWhenDone` is about. It is on in `manager`, where a leader renews for ever.

`RestsOnlyWhenDone` has limits that the instance respects and `NothingIsMissed`
(section 4) names. It does not hold when one of them is lifted:

* A config whose selector changes, while the cache of nodes lags: a pass labels a
  node, the selector is edited, and the next pass lists the pool from a cache that
  does not show the label yet. The node keeps its label and gets no topology, and
  its event reaches nobody, because the watch goes by the selector.
* A user puts the pool label of a config with a selector on a node that it does not
  select: no event reaches the config, and the node has no topology.
* The status write that reports a Helm conflict fails: `Reconcile` drops the error and
  returns without one (104-105), so that the config is neither provisioned nor reported.
* The List of the configs fails while the event of a node is mapped: the event is lost
  for every config (615-617). `convergence` has this failure: with the resync the
  node is served in the end.

Runs that find a claim violated. They are findings in `PROJECT.json`.

| Run | Claim | What the code does |
|---|---|---|
| `leftovers` | "All child resources, node labels, ... are cleaned up automatically" (README:87) | errors of `handleDeletion` are dropped or only logged, then the finalizer is released |
| `overlapping_pools` | "finds matching nodes and labels them" (README:224) | two configs on the same node relabel it for ever |
| `survivor_topology` | "Fake GPU resources deployed for %d nodes" (controller:459) | deleting a config deletes the topologies of all nodes; the other config is not enqueued |
| `shared_topology` | same | all configs write one ConfigMap `topology` with one pool |
| `scc_memo` | "SCC grants: Automated" (README:279) | one discovery error is kept as "not OpenShift" |
| `manager_role` | "RBAC, RuntimeClass, Services: Yes" (README:277) | the status updater's role grants `patch` on pods, which the manager does not hold: the API server refuses it in every pass |

`leftovers` shows one way; there are three: a List or Delete that fails, a
conflict on the Update of a node, and a List from a cache that does not show the
last write. `NoOrphans` and `NoLeftoverLabels` hold in `cleanup` because there
the calls of `handleDeletion` do not fail, child and node caches do not lag and
nobody edits labels; the theorems `NothingOutlivesItsConfig` (children) and
`LabelsGoWithTheirConfig` (labels) have the same premises. (A pool label removed by hand has the same effect as the
conflict: `handleDeletion` finds nodes by that label, and the deploy labels of the
node stay.)
`survivor_topology` uses a selector with a non-empty value. With an empty
value `nodeMatchesCfg`, which reads a missing label as empty, enqueues the other
config for every node event, and the unlabelling repairs the damage by accident.

### Fairness

`FairSpec` of `Operator` assumes weak fairness of the worker (`Reconcile`), of
each informer and of the resync, and strong fairness of `Take(c)`: the worker
goroutine and the reflectors keep running, controller-runtime resyncs every ten
hours or so, and the work queue is first in, first out, so that an item is not
overtaken for ever even though the worker is busy, and `Take` disabled, again and
again. Nothing is assumed of users, nodes, Helm or crashes. Failures are bounded by
the budget: a call that fails for ever prevents every liveness property. A child
deleted by others comes back only with the resync or another event.

`FairSpec` of `Manager` assumes weak fairness of every process and its kubelet
(`Process`), of the Deployment controller (`Surge`), of time (`Tick`), and that
an outage ends (`Recover`). Renewal needs none, as `Tick` waits for it while the
API server answers. `RolloutCompletes` allows for the rollout to be superseded by
the next.

## 4. Proofs

All theorems of `Operator` hold for any sets of configs and finite sets of nodes,
any specs, grants, budgets, lagging kinds and failing calls, unless a premise says
otherwise.

`OperatorProofs`:

* `TypeCorrect`: `Spec => []TypeOK`. One lemma per action, on top of lemmas for the
  parts that actions are made of (`UpdateConfigTyped`, `createOrUpdateTyped`,
  `ReturnTyped`, ...).
* `FinalizerFirst`: `Spec => []ProvisionsUnderFinalizer`.
* `EditsAreKept`: `Spec => NoEditLost`: an Update succeeds only if the copy is
  current (`CopyCurrent`), and but for the one that adds the finalizer, to a copy without
  one (`CopyFits`), it carries the copy's spec.
* `CleanupOnlyOfDeleted`: while `handleDeletion` runs, the config is not one that
  has the finalizer and has not been deleted.

`FinalizerFirst` and `CleanupOnlyOfDeleted` rest on `FinalizerInv`. `ProvisionsUnderFinalizer` is not inductive,
because a pass starts from a cached config that may be arbitrarily old. The
invariant adds what such a copy can be trusted for: a cached live config has its
finalizer on the server (`CacheTrusted`), and a cached deletion is never of a
config that has become live again (`DeletionTrusted`). These need each other: only the
worker removes a finalizer, at the end of a cleanup, for which the cache must not
show a live config (`CleansUpDeleted`); and only the worker adds one, by an Update
that succeeds only if nobody wrote since the copy was read (`CopyCurrent`), so that
the cache does not show a deletion at that moment. `FinalizerInv` was checked with
TLC before it was proved.

`PlanProofs`: what every rendered object is called and how it is labelled
(`WellNamed`), where it stands in the plan (`PlannedParts`), and that a plan
writes no object twice and every account and role before what refers to it
(`WritesInOrder`), going through all of `Plan`.

`RefinementProofs`: `Implements`, `Spec => ImplementsLifecycle`. An object with a
config's name carries its instance label or is one of the cluster-scoped objects
that are deleted by name (`OwnNamed`). `NamesInv` says
that children lie under their own identity, in the store and in the caches, and
that a cleanup works on a deleted copy; with it and `FinalizerInv`, one lemma per
action shows the abstract step (`Mapped`).

`ThoroughProofs`: `NothingOutlivesItsConfig`, `[]NoOrphans`, and
`ImplementsThoroughly`, `ImplementsThoroughLifecycle`. Both have the premise
`DeletionsReliable`: deletions and discovery do not fail, caches of children do not
lag. It cannot be dropped: `leftovers` is its counterexample. Other calls may fail,
and the process may crash anywhere. The invariant is what a cleanup has achieved
at each point (`Progress`): the kinds before `pos` are gone, after the last only
cluster-scoped objects are left, before the release nothing. It needs that every
child of a label is of a kind or a name that the cleanup knows (`StoreKnown`), and
that the memo of `detectOpenShift` is right (`MemoRight`), since the SCC's role is
deleted only on OpenShift.

`DeployedProofs`, on children:

* `ConfigsKeepApart`: `Spec => ChildrenIsolated`, with no premise: overlapping
  configs, stale caches and failures included.
* `AvailableIsDeployed`: `Spec => AvailableMeansDeployed`, when nobody but the
  operator changes children (`ChildrenLeftAlone`: no behaviour has a budget for it; a child deleted between
  its write and the status makes the property false).
  `Written` says what has been written at each position of a pass: the children
  before `pos`, all of them from the labels on. It is kept because the plan writes
  no object twice, because node topologies have names of their own, and because
  `detectOpenShift` answers before the first child that depends on it. That the
  status is stored with the spec the pass rendered is the version check of the
  Update (`CopyCurrent`).
* `WorkloadsKeepAccounts`: `[]WorkloadHasAccount`, with `DeletionsReliable` and
  `ChildrenLeftAlone`. Adding a workload uses `Written` and the order of the plan; removing an
  account uses `Progress`, by which the workloads are gone before.

`LabelProofs`, on nodes. `NodesInv` says what the worker may conclude from copies of
nodes: a copy that is not `stale` is the server's, and matches the selector of the
List it comes from. `Offered` says that a pass works for a spec its config was given.

* `PoolsKeepApart`: `Spec => NodesIsolated`, when pools are apart (`PoolsApart`): every
  config selects by labels of the cluster, no node as it registers is selected by two
  configs, whichever of their specs they have, or comes with the pool label of a
  config that does not select it, and nobody edits the labels selected by or the pool
  label. The property is not inductive: the unlabelling and the labelling
  each go by a list of their own. The invariant: a node is still selected as when
  it registered (`StillRegistered`), and by the config whose pool it is in
  (`PoolSelects`). Without the premise `overlapping_pools` is the counterexample.
* `LabelsGoWithTheirConfig`: `[]NoLeftoverLabels`, when nobody else edits nodes
  (they may join and leave) and the operator's calls on them succeed on current lists
  (`NodesQuiet`); `leftovers` is the counterexample without. Pools may overlap. By
  `PoolListed`, the cleanup has every node of the pool on its list until it has
  unlabelled it, and none is left when it releases the finalizer.

`LabelProofs` and `DeployedProofs`, on what has been missed:

* `NothingIsMissed`: `[]RestsOnlyWhenDone`. With whatever lag of the caches of configs
  and nodes, edits, relabelled, joining and leaving nodes, crashes, and failing
  reads and writes of a pass, a config is idle and nothing is on its way for it only if it is
  provisioned exactly. The invariant is about a config to which no further pass is
  owed: one that is not in `lag`, not queued, and not about to be queued by the
  rate limiter (`Owed`). `Settling` says that what such a config lacks is still
  ahead of the worker: a node it selects, as the cache shows it, is labelled or on
  the list of `reconcileNodeLabels`; then all are labelled, and a node in its pool has
  its topology or is on the list of `reconcileNodeTopologyConfigMaps`; at the end all
  is done, the status included. It is not inductive by itself. What the worker's copies
  can be trusted for is `CopiesInv`: a config read from a stale cache is owed
  another pass (`StaleOwed`); a listed node that is current is current in the
  cache too (`ListedFresh`); and a node still to be labelled is in the cache as it was
  listed, or the config is owed a pass (`ListedSeen`). Every step is then one of
  two kinds: one that changes what a pass has seen, which makes the config owed
  (`OwedKept`, `PoolEventReaches`: the event of a node reaches the config that
  selects it), and one that does not, which leaves done what was done.
  `PoolNoticed` handles the two ways to find a node, by selector and by pool label: a
  node whose pool label the cache does not show is one the config selects, or was
  noticed otherwise. `Written` (above) has the children; `MemoKnown` and `MemoRight`
  say that a pass has asked, rightly, whether it runs on OpenShift; `NoHelm` that
  without Helm installations there is no conflict.

  Its premises: one config (`OneConfig`: with two, `shared_topology`
  and `survivor_topology` are the counterexamples); nobody
  else changes children (`ChildrenLeftAlone`); a discovery that finds OpenShift where
  it is (`DiscoveryReliable`; `scc_memo` without); a node watch that reaches the config
  (`WatchReaches`: selectors that ask for labels that are there, and a List of the
  configs in `nodeToFakeGPUConfig` that does not fail); and the other limits of section 3: no
  report of a Helm conflict is lost (`ConflictsTold`), and configs select by hand-set
  pool labels, or the pool label is the operator's own and a config keeps its selector
  or the cache of nodes does not lag (`PoolsOurs`). The instance of `stale_caches`
  satisfies all of them.

`RenderingProofs`: the seven properties of the run `rendering`, for every spec, all
node labels and all settings of the images: `PlansInOrder`, `DaemonSetsAreScheduled`,
`DeletionReachesAll`, `PrivilegedAreAdmitted`, `ImagesByPriority` without premises;
`RoleSuffices` for an identity that holds `ManagerRole` (`Permitted` refuses the
rest); `WatchReachesSelection` for selectors on the cluster's own labels
(`SelectorsOfUsers`): a selector on a label the operator sets can stop matching by
the labelling itself.

`ManagerProofs`: `OnlyOneActive`, `Spec => []OneActive`, for any number of pods and
any durations with `RenewDeadline < LeaseDuration`. The invariant `LeaseInv`: an
active process holds the lease and the lease has not expired, and one that renews
it has not passed its deadline.

Assumptions: those named in `Operator` (`SpecsAssumption`, `NodesAssumption`,
`BudgetAssumption`, `NilAssumption`) and in `Manager` (`ReplicasAssumption`,
`LeaseAssumption`, `BudgetAssumption`): types of the constants, finitely many
nodes, configs distinct from nodes, Nil distinct from everything, the deadline
before the lease's end. TLC evaluates them in every run.

The premises are constant-level and hold in the runs that check the same property;
the invariants (`FinalizerInv`, `NamesInv`, `ThoroughInv`, `DeployedInv`, `NodesInv`,
`Offered`, `PoolsInv`, `LabelsInv`, `CopiesInv`, `PoolNoticed`, `Settling`, `LeaseInv`) were checked with TLC on those
instances before they were proved.

Only model-checked: the liveness properties `Converges`, `DeletionCompletes`,
`OwnPartsConverge`, `RolloutCompletes` (fairness and ENABLED are out of the prover's
reach). The claims of section 3 are false and have runs only.

## 5. Not modelled

* Rate-limiter delays, metrics, certificate watchers and TLS (`cmd/main.go`), but
  for the fatal errors of the set-up; the liveness probe, other than as a crash.
* A leader suspended beyond its lease (see the timing assumption above).
* The CRD's validation: an assumption on `Specs`. Of its defaults, those that
  `AddFinalizer` meets are modelled.
* The contents of DaemonSets that do not depend on the config: ports, volumes,
  fixed environment variables.
* The run-ai images that the children run, but for the status updater's write to
  node topologies; whether it enters an allocation again after the operator has
  overwritten it is not in this repository.
* MIG families and `mig.devices`, which no code reads.
* Generated deep copies, CRD and installation manifests.

## 6. State of the plan

Done: the modules and runs above, among them the permissions, children changed by
others, the manager, the abstract `Lifecycle` with the refinement, and the
theorems of section 4, which state every invariant, every action property and both
refinements of the passing runs.

Left: a run for the claim, implied by the example of README:148, that a component
switched off in a new config is not deployed (see `AddFinalizer`), with a property of
its own; a second run of `RestsOnlyWhenDone` and of the claim `SelectedNodesLabelled` for
a config whose selector changes while the cache of nodes lags, as in section 3; and
`RestsOnlyWhenDone` for several configs that share nothing, which the shared
ConfigMaps and the deletion of all node topologies rule out today.
