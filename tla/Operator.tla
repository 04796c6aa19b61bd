------------------------------ MODULE Operator ------------------------------
(***************************************************************************)
(* The FakeGPUConfig controller of                                         *)
(* internal/controller/fakegpuconfig_controller.go: one worker that runs   *)
(* Reconcile one API call at a time, against an API server that others     *)
(* write to as well, through informer caches that lag behind it.           *)
(*                                                                         *)
(* Reads (Get, List) go to the caches; writes go to the server.  Update    *)
(* carries the resourceVersion of the copy it was made from and succeeds   *)
(* exactly when that is the server's version.  For configs and nodes, lag  *)
(* and stale hold the entries whose cached and whose working copy is of an *)
(* older version; a child's copy is current when it equals the server's.   *)
(* Create succeeds exactly when the object is absent, Delete always.       *)
(***************************************************************************)
EXTENDS Permissions, FiniteSets

CONSTANTS
    Offers,         \* the specs that users give each config
    OnOpenShift,    \* does the cluster serve security.openshift.io?
    InitNodes,      \* the nodes at the start: labels, or Nil for a node that is not there
    NodeLabellings, \* the labels a node may register with
    Relabels,       \* <<key, value>> label edits a cluster user may make on a node
    Lagging,        \* the kinds whose cache may lag behind while the worker runs
    Faulty,         \* the calls that may fail: see Calls
    Resyncs,        \* does the informers' periodic resync happen?
    Budgets         \* how often each kind of disturbance may happen: one of these

\* update: config update, write: child create or update, node: node update,
\* status: status update, delete: list or delete of children in handleDeletion,
\* get: Get of the config, list: List, both through the cache, watch: List of the
\* configs for a node event, discovery: RESTMapper.
Calls        == {"update", "write", "node", "status", "delete", "get", "list", "watch", "discovery"}
Disturbances == {"edit", "node", "helm", "fault", "crash", "drift"}

ASSUME SpecsAssumption ==
    /\ Offers \in [Configs -> SUBSET Specs]
    /\ \A s \in Specs :
          /\ DOMAIN s = {"gpuProfile", "gpuCount", "custom", "nodeSelector", "mig", "components", "images"}
          /\ WrittenBack(s) \in Specs
          /\ s.gpuCount \in Nat
          /\ resolveProfile(s) # Nil => resolveProfile(s).Name \in STRING

ASSUME NodesAssumption ==
    /\ IsFiniteSet(Nodes)
    /\ Nil \notin Nodes
    /\ Configs \cap Nodes = {}
    /\ NodeLabellings \subseteq Labels
    /\ InitNodes \in [Nodes -> Labels \cup {Nil}]
    /\ Relabels \subseteq LabelKeys \X (LabelValues \cup {Nil})

ASSUME BudgetAssumption ==
    /\ OnOpenShift \in BOOLEAN
    /\ Budgets \subseteq [Disturbances -> Nat]

VARIABLES
    cfg,         \* the server's FakeGPUConfigs: Config -> ConfigObject or Nil
    seenCfg,     \* the operator's cache of cfg
    node,        \* the server's nodes: Node -> labels or Nil
    seenNode,    \* the operator's cache of node
    store,       \* the server's child objects: Id -> object or Nil
    seen,        \* the operator's cache of the lagging kinds of store
    lag,         \* the configs and nodes whose cached version is not the server's
    helm,        \* traces of a Helm installation the operator's caches show
    isOpenShift, \* the memo of detectOpenShift
    queue,       \* the work queue: a set of configs, as the queue deduplicates
    pc,          \* where the worker is in Reconcile
    cur,         \* the config it reconciles
    copy,        \* its copy of that config (the cfg variable of Reconcile)
    pos,         \* how far it is in a sequence of writes or deletions
    listed,      \* the nodes of its last List it has not handled yet
    stale,       \* the config and nodes whose version in copy and listed is not the server's
    budget       \* what is left of the budget

server == <<cfg, node, store>>
caches == <<seenCfg, seenNode, seen, lag>>
worker == <<pc, cur, copy, pos, listed, stale>>
vars   == <<server, caches, helm, isOpenShift, queue, worker, budget>>

-----------------------------------------------------------------------------
(* State. *)

Reasons  == {"None", "HelmConflict", "InvalidProfile", "Reconciled"}
Statuses ==
    [reason : Reasons, gpuProfile : STRING \cup {Nil}, gpuCount : Nat, total : Nat, ready : Nat]

\* deleting: deletionTimestamp is set; finalizer: gpu.openshift.io/finalizer is in the list.
ConfigObjects == [spec : Specs, finalizer : BOOLEAN, deleting : BOOLEAN, status : Statuses]

ASSUME NilAssumption ==
    Nil \notin Configs /\ Nil \notin Labels /\ Nil \notin Objects /\ Nil \notin ConfigObjects

NoStatus == [reason |-> "None", gpuProfile |-> Nil, gpuCount |-> 0, total |-> 0, ready |-> 0]

HelmTraces == {"secret", "topology"}

Provisioning == {"check", "conflict", "reject", "apply", "label", "topology"}
CleaningUp   == {"delete", "unlabel", "release"}
PCs          == {"idle", "error", "finalize"} \cup Provisioning \cup CleaningUp

LaggingIds == {id \in Ids : id[1] \in Lagging}
Nobody     == [n \in Nodes |-> Nil]

ServerOK ==
    /\ cfg \in [Configs -> ConfigObjects \cup {Nil}]
    /\ node \in [Nodes -> Labels \cup {Nil}]
    /\ store \in [Ids -> Objects \cup {Nil}]

CachesOK ==
    /\ seenCfg \in [Configs -> ConfigObjects \cup {Nil}]
    /\ seenNode \in [Nodes -> Labels \cup {Nil}]
    /\ seen \in [LaggingIds -> Objects \cup {Nil}]
    /\ lag \in SUBSET (Configs \cup Nodes)

WorkerOK ==
    /\ pc \in PCs
    /\ cur \in Configs \cup {Nil}
    /\ copy \in ConfigObjects \cup {Nil}
    /\ pos \in Nat
    /\ listed \in [Nodes -> Labels \cup {Nil}]
    /\ stale \in SUBSET (Configs \cup Nodes)
    /\ pc # "idle" => cur \in Configs
    /\ pc \notin {"idle", "error"} => copy \in ConfigObjects
    /\ pc \in {"apply", "label", "topology"} => copy.spec \in ValidSpecs

RestOK ==
    /\ helm \in SUBSET HelmTraces
    /\ isOpenShift \in {"unknown", "yes", "no"}
    /\ queue \in SUBSET Configs
    /\ budget \in [Disturbances -> Nat]

\* The types of the variables; and the worker has a config and a copy of it
\* whenever it is in a pass, with a profile once it has passed CheckHelm.
TypeOK == ServerOK /\ CachesOK /\ WorkerOK /\ RestOK

Init ==
    /\ cfg = [c \in Configs |-> Nil] /\ seenCfg = cfg
    /\ node = InitNodes              /\ seenNode = node
    /\ store = [id \in Ids |-> Nil]  /\ seen = [id \in LaggingIds |-> Nil]
    /\ lag = {}
    /\ helm = {}
    /\ isOpenShift = "unknown"
    /\ queue = {}
    /\ pc = "idle" /\ cur = Nil /\ copy = Nil /\ pos = 1 /\ listed = Nobody /\ stale = {}
    /\ budget \in Budgets

-----------------------------------------------------------------------------
(* How a step of the worker ends, and what it can see. *)

Spend(disturbance) ==
    /\ budget[disturbance] > 0
    /\ budget' = [budget EXCEPT ![disturbance] = @ - 1]

\* A call fails only when it is one of the Faulty ones and the budget allows it.
MayFail(call, failed) ==
    IF failed THEN call \in Faulty /\ Spend("fault") ELSE UNCHANGED budget

\* (Mutant: the name of the failed request is lost.)
Return_LosesRequest(outcome) ==
    /\ pc' = outcome
    /\ cur' = Nil
    /\ copy' = Nil /\ pos' = 1 /\ listed' = Nobody /\ stale' = {}

\* Reconcile returns: "idle" without an error, "error" with one.
Return(outcome) ==
    /\ pc' = outcome
    /\ cur' = IF outcome = "error" THEN cur ELSE Nil
    /\ copy' = Nil /\ pos' = 1 /\ listed' = Nobody /\ stale' = {}

Goto(label) == pc' = label /\ UNCHANGED <<cur, copy>>

\* The caches of the kinds that do not lag are up to date when the worker moves.
Fresh ==
    /\ "FakeGPUConfig" \in Lagging \/ lag \cap Configs = {}
    /\ "Node" \in Lagging \/ lag \cap Nodes = {}

At(label) == pc = label /\ Fresh

\* A child as Get and List see it.
View(id) == IF id \in LaggingIds THEN seen[id] ELSE store[id]

\* (Mutant: the Update carries no resourceVersion.)
SameVersion_Unchecked(x) == TRUE

\* The resourceVersion check of an Update of the config or of a node.
SameVersion(x) == x \notin stale

\* A write to the server; one that changes nothing makes no new version.
PutConfig(c, new) ==
    /\ cfg' = [cfg EXCEPT ![c] = new]
    /\ lag' = IF new = cfg[c] THEN lag ELSE lag \cup {c}
    /\ UNCHANGED <<seenCfg, seenNode, seen>>
PutNode(n, new) ==
    /\ node' = [node EXCEPT ![n] = new]
    /\ lag' = IF new = node[n] THEN lag ELSE lag \cup {n}
    /\ UNCHANGED <<seenCfg, seenNode, seen>>

\* List with a label selector: the copies of the nodes that match.
ListNodes(selector) ==
    [n \in Nodes |-> IF seenNode[n] # Nil /\ MatchingLabels(seenNode[n], selector)
                     THEN seenNode[n] ELSE Nil]

\* A List leaves the worker with copies as old as the cache they come from.
TakeList(selector) ==
    /\ listed' = ListNodes(selector)
    /\ stale' = (stale \cap Configs) \cup {n \in lag \cap Nodes : ListNodes(selector)[n] # Nil}

\* The number of nodes in a List, and of those that carry the device plugin label.
Count(nodes)      == Cardinality({n \in Nodes : nodes[n] # Nil})
CountReady(nodes) == Cardinality({n \in Nodes : nodes[n] # Nil /\ nodes[n][deployDPLabel] = "true"})

\* (Mutant: the list is not limited to one config's pool.)
Pool_Every(c) == {}

\* The selector of the Lists in reconcileNodeTopologyConfigMaps and handleDeletion.
Pool(c) == {<<nodePoolLabel, c>>}

CurPlan == Plan(cur, copy.spec, isOpenShift = "yes")

-----------------------------------------------------------------------------
(* Reconcile, from the start to the writing of the children. *)

\* (Mutants: no finalizer is added; deletion is not looked at.)
Entry_NoFinalizer(obj) == IF obj.deleting THEN "delete" ELSE "check"
Entry_NoDeletion(obj)  == IF obj.finalizer THEN "check" ELSE "finalize"

\* Where Reconcile goes from the config it has read.
Entry(obj) ==
    IF obj.deleting THEN "delete" ELSE IF obj.finalizer THEN "check" ELSE "finalize"

\* The worker takes a config from the queue and reads it from the cache: it is
\* not there, or the pass begins, or the Get fails.
Take(c) ==
    /\ At("idle")
    /\ c \in queue
    /\ queue' = queue \ {c}
    /\ \/ seenCfg[c] = Nil /\ UNCHANGED <<worker, budget>>
       \/ /\ seenCfg[c] # Nil
          /\ cur' = c
          /\ copy' = seenCfg[c]
          /\ pc' = Entry(seenCfg[c])
          /\ stale' = lag \cap {c}
          /\ UNCHANGED <<pos, listed, budget>>
       \/ /\ MayFail("get", TRUE)
          /\ pc' = "error" /\ cur' = c
          /\ UNCHANGED <<copy, pos, listed, stale>>
    /\ UNCHANGED <<server, caches, helm, isOpenShift>>

\* An Update of the config from copy: err says whether it returned an error.  A
\* failing call may or may not have reached the server.
UpdateConfig(call, new, err) ==
    \/ ~err /\ SameVersion(cur) /\ PutConfig(cur, new) /\ UNCHANGED budget
    \/ err /\ ~SameVersion(cur) /\ UNCHANGED <<cfg, caches, budget>>
    \/ /\ err
       /\ MayFail(call, TRUE)
       /\ UNCHANGED <<cfg, caches>> \/ (SameVersion(cur) /\ PutConfig(cur, new))

\* The same of a node.
UpdateNode(n, new, err) ==
    \/ ~err /\ SameVersion(n) /\ PutNode(n, new) /\ UNCHANGED budget
    \/ err /\ ~SameVersion(n) /\ UNCHANGED <<node, caches, budget>>
    \/ /\ err
       /\ MayFail("node", TRUE)
       /\ UNCHANGED <<node, caches>> \/ (SameVersion(n) /\ PutNode(n, new))

\* The Update sends the whole config; its answer becomes the copy.
AddFinalizer ==
    /\ At("finalize")
    /\ LET new == [copy EXCEPT !.spec = WrittenBack(@), !.finalizer = TRUE] IN
       \E err \in BOOLEAN :
           /\ UpdateConfig("update", new, err)
           /\ IF err THEN Return("error")
              ELSE pc' = "check" /\ copy' = new /\ UNCHANGED <<cur, pos, listed, stale>>
    /\ UNCHANGED <<node, store, helm, isOpenShift, queue>>

\* A failing List makes it return false: the check is open on errors.
detectHelmConflict(found, broken) ==
    /\ "secret" \notin broken
    /\ \/ "secret" \in found
       \/ "topology" \in found /\ "topology" \notin broken

\* The Helm check and resolveProfile, which choose the rest of the pass.
CheckHelm ==
    /\ At("check")
    /\ \E broken \in {{}} \cup {{list} : list \in HelmTraces} :
           /\ MayFail("list", broken # {})
           /\ Goto(IF detectHelmConflict(helm, broken) THEN "conflict"
                   ELSE IF resolveProfile(copy.spec) = Nil THEN "reject" ELSE "apply")
    /\ UNCHANGED <<server, caches, helm, isOpenShift, queue, pos, listed, stale>>

\* _ = r.Status().Update: the condition is written if it can be, and the
\* error is ignored either way.
WriteCondition(reason) ==
    \E err \in BOOLEAN : UpdateConfig("status", [copy EXCEPT !.status.reason = reason], err)

\* Returns nil: nothing asks for another attempt.
ReportHelmConflict ==
    /\ At("conflict")
    /\ WriteCondition("HelmConflict")
    /\ Return("idle")
    /\ UNCHANGED <<node, store, helm, isOpenShift, queue>>

\* Returns the error of resolveProfile.
RejectProfile ==
    /\ At("reject")
    /\ WriteCondition("InvalidProfile")
    /\ Return("error")
    /\ UNCHANGED <<node, store, helm, isOpenShift, queue>>

\* (Mutant: a refused write is not an error.)
createOrUpdate_IgnoresConflict(obj, err) ==
    /\ ~err
    /\ store' = IF store[obj.id] = View(obj.id) THEN [store EXCEPT ![obj.id] = obj] ELSE store
    /\ UNCHANGED budget

\* (Mutant: an error is logged, not returned.)
createOrUpdate_DropsErrors(obj, err) ==
    /\ ~err
    /\ \/ UNCHANGED budget /\ store' = IF store[obj.id] = View(obj.id) THEN [store EXCEPT ![obj.id] = obj] ELSE store
       \/ MayFail("write", TRUE) /\ store' = store

\* createOrUpdate and createOrUpdateClusterScoped: Get from the cache, then
\* Create or Update.  It is refused when it is not permitted and when the cache
\* was not up to date (Forbidden; AlreadyExists, NotFound or Conflict); a
\* failing call may or may not have reached the server.
createOrUpdate(obj, err) ==
    LET verb     == IF View(obj.id) = Nil THEN "create" ELSE "update"
        accepted == store[obj.id] = View(obj.id) /\ Permitted(verb, obj)
        written  == [store EXCEPT ![obj.id] = obj]
    IN  \/ ~err /\ accepted /\ store' = written /\ UNCHANGED budget
        \/ err /\ ~accepted /\ UNCHANGED <<store, budget>>
        \/ /\ err
           /\ MayFail("write", TRUE)
           /\ store' = store \/ (accepted /\ store' = written)

\* detectOpenShift: the first answer is kept, an error counts as "no".
DetectOpenShift ==
    /\ isOpenShift = "unknown"
    /\ \/ At("apply") /\ pos > LastBeforeSCC
       \/ At("unlabel") /\ listed = Nobody
    /\ \E failed \in BOOLEAN :
           /\ MayFail("discovery", failed)
           /\ isOpenShift' = IF OnOpenShift /\ ~failed THEN "yes" ELSE "no"
    /\ UNCHANGED <<server, caches, helm, queue, worker>>

\* The next of the children Reconcile writes.
Apply ==
    /\ At("apply")
    /\ pos <= LastBeforeSCC \/ isOpenShift # "unknown"
    /\ pos \in DOMAIN CurPlan
    /\ \E err \in BOOLEAN :
           /\ createOrUpdate(CurPlan[pos], err)
           /\ IF err THEN Return("error")
              ELSE pos' = pos + 1 /\ UNCHANGED <<pc, cur, copy, listed, stale>>
    /\ UNCHANGED <<cfg, node, caches, helm, isOpenShift, queue>>

-----------------------------------------------------------------------------
(* Reconcile, from the node labels to the status. *)

\* A List that fails ends the pass with its error.
ListFails ==
    /\ \/ At("apply") /\ pos > LastBeforeSCC /\ isOpenShift # "unknown" /\ pos \notin DOMAIN CurPlan
       \/ At("label") /\ listed = Nobody
       \/ At("topology") /\ listed = Nobody
       \/ At("delete") /\ pos \notin DOMAIN DeletionOrder(cur)
    /\ MayFail("list", TRUE)
    /\ Return("error")
    /\ UNCHANGED <<server, caches, helm, isOpenShift, queue>>

\* reconcileNodeLabels lists the nodes it is to label.
ListMatching ==
    /\ At("apply")
    /\ pos > LastBeforeSCC /\ isOpenShift # "unknown" /\ pos \notin DOMAIN CurPlan
    /\ TakeList(nodeListOption(cur, copy.spec))
    /\ Goto("label") /\ pos' = 1
    /\ UNCHANGED <<server, caches, helm, isOpenShift, queue, budget>>

\* The loop body of reconcileNodeLabels: no write when the copy has the labels.
LabelNode(n) ==
    LET new  == Labelled(listed[n], cur, copy.spec)
        next == listed' = [listed EXCEPT ![n] = Nil] /\ UNCHANGED <<pc, cur, copy, pos, stale>>
    IN  /\ At("label")
        /\ listed[n] # Nil
        /\ \/ new = listed[n] /\ next /\ UNCHANGED <<node, caches, budget>>
           \/ /\ new # listed[n]
              /\ \E err \in BOOLEAN :
                     UpdateNode(n, new, err) /\ IF err THEN Return("error") ELSE next
        /\ UNCHANGED <<cfg, store, helm, isOpenShift, queue>>

\* reconcileNodeTopologyConfigMaps lists the nodes of the pool, from the cache.
ListPool ==
    /\ At("label")
    /\ listed = Nobody
    /\ TakeList(Pool(cur))
    /\ Goto("topology")
    /\ UNCHANGED <<server, caches, helm, isOpenShift, queue, pos, budget>>

\* The loop body of reconcileNodeTopologyConfigMaps.
WriteTopology(n) ==
    /\ At("topology")
    /\ listed[n] # Nil
    /\ \E err \in BOOLEAN :
           /\ createOrUpdate(NodeTopologyConfigMap(n, copy.spec), err)
           /\ IF err THEN Return("error")
              ELSE listed' = [listed EXCEPT ![n] = Nil] /\ UNCHANGED <<pc, cur, copy, pos, stale>>
    /\ UNCHANGED <<cfg, node, caches, helm, isOpenShift, queue>>

\* The status updateStatus computes for a spec, from a List of its nodes.
ReconciledStatus(spec, nodes) ==
    [reason |-> "Reconciled", gpuProfile |-> resolveProfile(spec).Name,
     gpuCount |-> spec.gpuCount, total |-> Count(nodes), ready |-> CountReady(nodes)]

UpdateStatus ==
    LET status == ReconciledStatus(copy.spec, ListNodes(nodeListOption(cur, copy.spec))) IN
    /\ At("topology")
    /\ listed = Nobody
    /\ \E err \in BOOLEAN :
           /\ UpdateConfig("status", [copy EXCEPT !.status = status], err)
           /\ Return(IF err THEN "error" ELSE "idle")
    /\ UNCHANGED <<node, store, helm, isOpenShift, queue>>

-----------------------------------------------------------------------------
(* handleDeletion. *)

\* (Mutant: the instance label is not part of the selection.)
ListChildren_AnyInstance(kind, label) == {id \in Ids : id[1] = kind /\ View(id) # Nil}

\* The children a List of one kind by one label returns.
ListChildren(kind, label) ==
    {id \in Ids : id[1] = kind /\ View(id) # Nil /\ View(id).label = label}

\* The next kind of children: List by label, Delete each.  A failing List
\* leaves all of them, a failing Delete one; both are only logged.
DeleteLabelled ==
    LET step   == DeletionOrder(cur)[pos]
        doomed == ListChildren(step[1], step[2])
    IN  /\ At("delete")
        /\ pos \in DOMAIN DeletionOrder(cur)
        /\ \E kept \in {{}, doomed} \cup {{id} : id \in doomed} :
               /\ MayFail("delete", kept # {})
               /\ store' = [id \in Ids |-> IF id \in doomed \ kept THEN Nil ELSE store[id]]
        /\ pos' = pos + 1
        /\ UNCHANGED <<cfg, node, caches, helm, isOpenShift, queue, pc, cur, copy, listed, stale>>

ListLabelled ==
    /\ At("delete")
    /\ pos \notin DOMAIN DeletionOrder(cur)
    /\ TakeList(Pool(cur))
    /\ Goto("unlabel") /\ pos' = 1
    /\ UNCHANGED <<server, caches, helm, isOpenShift, queue, budget>>

\* The node is updated if it can be; an error is only logged.
UnlabelNode(n) ==
    /\ At("unlabel")
    /\ listed[n] # Nil
    /\ \E err \in BOOLEAN : UpdateNode(n, Unlabelled(listed[n]), err)
    /\ listed' = [listed EXCEPT ![n] = Nil]
    /\ stale' = stale \ {n}
    /\ UNCHANGED <<cfg, store, helm, isOpenShift, queue, pc, cur, copy, pos>>

\* The cluster-scoped children are deleted by name; errors are only logged.
DeleteClusterScoped ==
    LET doomed == ClusterScoped(cur, isOpenShift = "yes") \cap Ids IN
    /\ At("unlabel")
    /\ listed = Nobody
    /\ isOpenShift # "unknown"
    /\ \E kept \in {{}} \cup {{id} : id \in doomed} :
           /\ MayFail("delete", kept # {})
           /\ store' = [id \in Ids |-> IF id \in doomed \ kept THEN Nil ELSE store[id]]
    /\ Goto("release")
    /\ UNCHANGED <<cfg, node, caches, helm, isOpenShift, queue, pos, listed, stale>>

\* RemoveFinalizer and Update: the server drops an object that is being
\* deleted with its last finalizer.
Release ==
    /\ At("release")
    /\ \E err \in BOOLEAN :
           /\ UpdateConfig("update", Nil, err)
           /\ Return(IF err THEN "error" ELSE "idle")
    /\ UNCHANGED <<node, store, helm, isOpenShift, queue>>

\* The rate limiter puts a config whose pass failed back on the queue.
Requeue ==
    /\ pc = "error"
    /\ queue' = queue \cup {cur}
    /\ pc' = "idle" /\ cur' = Nil
    /\ UNCHANGED <<server, caches, helm, isOpenShift, copy, pos, listed, stale, budget>>

-----------------------------------------------------------------------------
(* The informers. *)

\* For(&FakeGPUConfig{}): every change of a config enqueues it.
SyncConfig(c) ==
    /\ c \in lag
    /\ lag' = lag \ {c}
    /\ seenCfg' = [seenCfg EXCEPT ![c] = cfg[c]]
    /\ queue' = queue \cup {c}
    /\ UNCHANGED <<server, seenNode, seen, helm, isOpenShift, worker, budget>>

\* nodeToFakeGPUConfig: the cached configs a node matches; none when the List
\* of the configs fails.
nodeToFakeGPUConfig(labels, err) ==
    {c \in Configs : /\ ~err /\ labels # Nil /\ seenCfg[c] # Nil
                     /\ nodeMatchesCfg(labels, c, seenCfg[c].spec)}

\* Watches(&Node{}): an update event is mapped with the old and the new node.
\* Nothing asks for the event again when a List fails.
SyncNode(n) ==
    /\ n \in lag
    /\ lag' = lag \ {n}
    /\ seenNode' = [seenNode EXCEPT ![n] = node[n]]
    /\ \E oldErr, newErr \in BOOLEAN :
           /\ MayFail("watch", oldErr \/ newErr)
           /\ queue' = queue \cup nodeToFakeGPUConfig(seenNode[n], oldErr)
                             \cup nodeToFakeGPUConfig(node[n], newErr)
    /\ UNCHANGED <<server, seenCfg, seen, helm, isOpenShift, worker>>

\* The cache of a kind of children catches up.  Children carry no owner
\* reference, so that no config is enqueued.
SyncKind(kind) ==
    LET synced == [id \in LaggingIds |-> IF id[1] = kind THEN store[id] ELSE seen[id]] IN
    /\ seen # synced
    /\ seen' = synced
    /\ UNCHANGED <<server, seenCfg, seenNode, lag, helm, isOpenShift, queue, worker, budget>>

\* (Mutant: configs that are available are filtered out of it.)
Resync_SkipsAvailable ==
    /\ Resyncs
    /\ queue' = queue \cup {c \in Configs : seenCfg[c] # Nil /\ seenCfg[c].status.reason # "Reconciled"}
    /\ queue' # queue
    /\ UNCHANGED <<server, caches, helm, isOpenShift, worker, budget>>

\* The periodic resync replays every cached config as an update event.
Resync ==
    /\ Resyncs
    /\ queue' = queue \cup {c \in Configs : seenCfg[c] # Nil}
    /\ queue' # queue
    /\ UNCHANGED <<server, caches, helm, isOpenShift, worker, budget>>

-----------------------------------------------------------------------------
(* The rest of the world. *)

\* Somebody else changes a config or a node: working copies of it are outdated.
ChangeConfig(c, new) ==
    /\ PutConfig(c, new)
    /\ stale' = stale \cup ({c} \cap {cur})
    /\ UNCHANGED <<node, store, helm, isOpenShift, queue, pc, cur, copy, pos, listed>>
ChangeNode(n, new) ==
    /\ PutNode(n, new)
    /\ stale' = IF listed[n] # Nil THEN stale \cup {n} ELSE stale
    /\ UNCHANGED <<cfg, store, helm, isOpenShift, queue, pc, cur, copy, pos, listed>>

UserCreates(c) ==
    /\ cfg[c] = Nil
    /\ Spend("edit")
    /\ \E s \in Offers[c] :
           ChangeConfig(c, [spec |-> s, finalizer |-> FALSE, deleting |-> FALSE, status |-> NoStatus])

UserEdits(c) ==
    /\ cfg[c] # Nil
    /\ Spend("edit")
    /\ \E s \in Offers[c] \ {cfg[c].spec} : ChangeConfig(c, [cfg[c] EXCEPT !.spec = s])

\* A finalizer keeps the object, marked as being deleted.
UserDeletes(c) ==
    /\ cfg[c] # Nil
    /\ ~cfg[c].deleting
    /\ Spend("edit")
    /\ ChangeConfig(c, IF cfg[c].finalizer THEN [cfg[c] EXCEPT !.deleting = TRUE] ELSE Nil)

NodeJoins(n) ==
    /\ node[n] = Nil
    /\ Spend("node")
    /\ \E labels \in NodeLabellings : ChangeNode(n, labels)

NodeLeaves(n) ==
    /\ node[n] # Nil
    /\ Spend("node")
    /\ ChangeNode(n, Nil)

UserRelabels(n) ==
    /\ node[n] # Nil
    /\ Spend("node")
    /\ \E edit \in Relabels :
           /\ node[n][edit[1]] # edit[2]
           /\ ChangeNode(n, [node[n] EXCEPT ![edit[1]] = edit[2]])

\* Someone installs or uninstalls the Helm chart; nothing watches for it.
HelmChanges ==
    /\ Spend("helm")
    /\ \E found \in SUBSET HelmTraces : found # helm /\ helm' = found
    /\ UNCHANGED <<server, caches, isOpenShift, queue, worker>>

\* Somebody deletes a child.  It carries no owner reference, so that the Owns
\* watches enqueue no config.
OthersDelete(id) ==
    /\ store[id] # Nil
    /\ Spend("drift")
    /\ store' = [store EXCEPT ![id] = Nil]
    /\ UNCHANGED <<cfg, node, caches, helm, isOpenShift, queue, worker>>

\* The status updater enters a pod that holds a GPU into a node's topology.
StatusUpdaterAllocates(id) ==
    /\ store[id] \in NodeTopologies
    /\ Spend("drift")
    /\ store' = [store EXCEPT ![id] = Allocated(@)]
    /\ UNCHANGED <<cfg, node, caches, helm, isOpenShift, queue, worker>>

\* The process dies and comes back: the caches are listed afresh, every config
\* is enqueued by its create event, the memo of detectOpenShift is lost.
Restart ==
    /\ Spend("crash")
    /\ seenCfg' = cfg /\ seenNode' = node /\ seen' = [id \in LaggingIds |-> store[id]]
    /\ isOpenShift' = "unknown"
    /\ queue' = {c \in Configs : cfg[c] # Nil}
    /\ lag' = {}
    /\ Return("idle")
    /\ UNCHANGED <<server, helm>>

-----------------------------------------------------------------------------
Reconcile ==
    \/ AddFinalizer \/ CheckHelm \/ ReportHelmConflict \/ RejectProfile
    \/ DetectOpenShift \/ Apply \/ ListMatching \/ ListPool \/ ListFails \/ UpdateStatus
    \/ DeleteLabelled \/ ListLabelled \/ DeleteClusterScoped \/ Release \/ Requeue
    \/ \E n \in Nodes : LabelNode(n) \/ WriteTopology(n) \/ UnlabelNode(n)

Environment ==
    \/ \E c \in Configs : UserCreates(c) \/ UserEdits(c) \/ UserDeletes(c)
    \/ \E n \in Nodes : NodeJoins(n) \/ NodeLeaves(n) \/ UserRelabels(n)
    \/ \E id \in Ids : OthersDelete(id) \/ StatusUpdaterAllocates(id)
    \/ HelmChanges
    \/ Restart

Next ==
    \/ \E c \in Configs : Take(c) \/ SyncConfig(c)
    \/ \E n \in Nodes : SyncNode(n)
    \/ \E kind \in ChildKinds : SyncKind(kind)
    \/ Resync
    \/ Reconcile
    \/ Environment

\* The worker goroutine and the informers keep running; the work queue hands
\* out its items first in, first out, so that none waits for ever.
Fairness ==
    /\ WF_vars(Reconcile)
    /\ \A c \in Configs : SF_vars(Take(c)) /\ WF_vars(SyncConfig(c))
    /\ \A n \in Nodes : WF_vars(SyncNode(n))
    /\ \A kind \in ChildKinds : WF_vars(SyncKind(kind))
    /\ WF_vars(Resync)

Spec     == Init /\ [][Next]_vars
FairSpec == Spec /\ Fairness

-----------------------------------------------------------------------------
(* Properties. *)

Guarded(c) == cfg[c] # Nil /\ cfg[c].finalizer

\* While Reconcile writes children, labels or the status of a config, that
\* config is on the server with the finalizer (Reconcile's AddFinalizer comes
\* first), whatever the cache it started from showed and whoever deletes or
\* recreates the config meanwhile: what the pass writes will be cleaned up.
ProvisionsUnderFinalizer == pc \in Provisioning => Guarded(cur)

\* Whenever updateStatus changes the status to Available, the status describes
\* the spec it is stored with, and every child that spec asks for is on the
\* server as rendered from it: no status for an edited spec, no skipped child.
AvailableMeansDeployed ==
    [][\A c \in Configs :
          cfg[c] # Nil /\ cfg'[c] # Nil /\ cfg'[c].status # cfg[c].status
            /\ cfg'[c].status.reason = "Reconciled"
          => LET spec == cfg'[c].spec IN
             /\ cfg'[c].status.gpuProfile = resolveProfile(spec).Name
             /\ cfg'[c].status.gpuCount = spec.gpuCount
             /\ \A obj \in Planned(c, spec, isOpenShift = "yes") : store'[obj.id] = obj]_vars

\* A pass overwrites no edit of a user: its Updates carry the spec of the copy it
\* started from, which may be older than the server's.  Only the Update that adds
\* the finalizer changes a spec, and only by turning on what was switched off.
NoEditLost ==
    [][Reconcile =>
          \A c \in Configs :
              cfg[c] # Nil /\ cfg'[c] # Nil /\ cfg'[c].spec # cfg[c].spec
              => /\ ~cfg[c].finalizer /\ cfg'[c].finalizer
                 /\ cfg'[c].spec = WrittenBack(cfg[c].spec)]_vars

\* No child of a config outlives it: whatever carries its instance label is
\* there under the protection of its finalizer, and a node's topology under that
\* of some config (handleDeletion deletes all of it before Release).
NoOrphans ==
    \A id \in Ids :
        /\ \A c \in Configs : store[id] # Nil /\ store[id].label = Instance(c) => Guarded(c)
        /\ store[id] # Nil /\ store[id].label = NodeTopology => \E c \in Configs : Guarded(c)

\* No label of the operator outlives its config: a node that carries one
\* carries the pool label of a config that still has its finalizer.
NoLeftoverLabels ==
    \A n \in Nodes :
        node[n] # Nil /\ (\E k \in OperatorLabels : node[n][k] # Nil)
        => \E c \in Configs : node[n][nodePoolLabel] = c /\ Guarded(c)

\* A workload's service account is there as long as the workload is: accounts
\* are created first (reconcileRBAC) and deleted last (handleDeletion), across
\* crashes and repeated passes.
WorkloadHasAccount ==
    \A id \in Ids :
        store[id] # Nil /\ id[1] \in {"DaemonSet", "Deployment"}
        => store[<<"ServiceAccount", store[id].body.account, id[3]>>] # Nil

\* The nodes a config is for, on the server: those with the labels of its
\* selector, or those labelled by hand when it has none.
Selected(c) ==
    {n \in Nodes :
        /\ node[n] # Nil
        /\ \/ /\ cfg[c].spec.nodeSelector # {}
              /\ \A p \in cfg[c].spec.nodeSelector : node[n][p[1]] = p[2]
           \/ cfg[c].spec.nodeSelector = {} /\ node[n][nodePoolLabel] = c}

\* The nodes that carry a config's pool label, on the server.
Pooled(c) == {n \in Nodes : node[n] # Nil /\ node[n][nodePoolLabel] = c}

\* The children with a name of their own, and all children, are as c's spec asks.
OwnChildrenDeployed(c) ==
    \A obj \in Planned(c, cfg[c].spec, OnOpenShift) : obj.id[3] = c => store[obj.id] = obj
AllChildrenDeployed(c) ==
    \A obj \in Planned(c, cfg[c].spec, OnOpenShift) : store[obj.id] = obj

NodesServed(c) ==
    /\ \A n \in Selected(c) : node[n] = Labelled(node[n], c, cfg[c].spec)
    /\ \A n \in Pooled(c) :
          LET cm == NodeTopologyConfigMap(n, cfg[c].spec) IN store[cm.id] \in {cm, Allocated(cm)}

StatusExact(c) ==
    cfg[c].status = [reason |-> "Reconciled", gpuProfile |-> resolveProfile(cfg[c].spec).Name,
                     gpuCount |-> cfg[c].spec.gpuCount,
                     total |-> Cardinality(Selected(c)), ready |-> Cardinality(Selected(c))]

Provisioned(c) ==
    /\ ~cfg[c].deleting
    /\ AllChildrenDeployed(c)
    /\ NodesServed(c)
    /\ StatusExact(c)

\* Nothing is left for the operator to do of its own accord.
Quiescent == pc = "idle" /\ queue = {} /\ lag = {}

\* When the operator rests, no event is missing: every config it has not
\* refused for a Helm conflict has its children, its nodes are labelled and
\* have their topology, and the status counts them, although every read was of
\* a cache that may have lagged (createOrUpdate, reconcileNodeLabels,
\* reconcileNodeTopologyConfigMaps, updateStatus, nodeToFakeGPUConfig).  For runs
\* in which "watch" is not in Faulty: a failing List of the configs loses the event.
RestsOnlyWhenDone ==
    Quiescent => \A c \in Configs :
                     cfg[c] # Nil /\ cfg[c].status.reason # "HelmConflict" => Provisioned(c)

\* What the operator owes a config: its children, or the report that the spec
\* names no profile.
Settled(c) ==
    IF cfg[c].spec \in ValidSpecs THEN Provisioned(c)
    ELSE ~cfg[c].deleting /\ cfg[c].status.reason = "InvalidProfile"

\* In the end, with no Helm installation left, every config is settled for good
\* or gone: retries after errors and the resync get past every disturbance, the
\* Helm conflict that Reconcile does not retry included.
Converges == <>[](helm = {} => \A c \in Configs : cfg[c] # Nil => Settled(c))

\* A deleted config goes away: handleDeletion is retried until its last Update
\* succeeds, whether or not a Helm installation is in the way.
DeletionCompletes ==
    \A c \in Configs : (cfg[c] # Nil /\ cfg[c].deleting) ~> (cfg[c] = Nil)

\* The children that carry a config's name: all but the ConfigMaps and the
\* RuntimeClass, which configs share.
OwnIds(c) == {id \in Ids : id[1] # "ConfigMap" /\ id[3] = c}

KeepsOthersChildren ==
    Reconcile => \A c \in Configs \ {cur} : \A id \in OwnIds(c) : store'[id] = store[id]

\* A pass for one config changes no child that carries another config's name:
\* the names that Plan writes and the instance label that handleDeletion selects
\* by tell configs apart, also where their nodes overlap.
ChildrenIsolated == [][KeepsOthersChildren]_vars

KeepsOthersNodes ==
    Reconcile =>
        \A n \in Nodes :
            node[n] # Nil /\ node[n][nodePoolLabel] \in Configs \ {cur} => node'[n] = node[n]

\* With disjoint selectors, a pass for one config changes no label of a node in
\* another config's pool (handleDeletion and reconcileNodeTopologyConfigMaps
\* select by pool label).
NodesIsolated == [][KeepsOthersNodes]_vars

\* With several configs on pools of their own, each in the end has the children
\* that are its own, its nodes and an exact status, or is gone: what the
\* deletion of one config takes from another comes back with the resync.
OwnPartsConverge ==
    <>[](\A c \in Configs :
            cfg[c] # Nil => OwnChildrenDeployed(c) /\ NodesServed(c) /\ StatusExact(c))
=============================================================================
