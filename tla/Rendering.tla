----------------------------- MODULE Rendering -----------------------------
(***************************************************************************)
(* What FakeGPUConfig, Resources and Permissions promise together: the     *)
(* order and the names of the children, the labels they are scheduled and  *)
(* deleted by, the accounts and roles they need, their images.  A state is *)
(* one probe: the inputs of one evaluation.                                *)
(***************************************************************************)
EXTENDS Permissions

CONSTANT Probes

ASSUME ProbesAssumption ==
    /\ Nil \notin Configs
    /\ Probes \subseteq [config : Configs, node : Nodes, spec : Specs, labels : Labels, openshift : BOOLEAN]

VARIABLE probe

Init == probe \in Probes
Next == UNCHANGED probe
Spec == Init /\ [][Next]_probe

-----------------------------------------------------------------------------
PlanNow == Plan(probe.config, probe.spec, probe.openshift)

\* What a pass writes before the node labels, and with the topology of a node.
ChildrenNow == Planned(probe.config, probe.spec, probe.openshift)
WrittenNow  == ChildrenNow \cup {NodeTopologyConfigMap(probe.node, probe.spec)}

\* One pass writes no object twice, and renders the account of a workload and
\* the role of a binding before the workload and the binding (the order of
\* Reconcile against the names chosen in internal/resources).
PlanInOrder ==
    \A i \in DOMAIN PlanNow :
        /\ \A j \in 1..i-1 : PlanNow[j].id # PlanNow[i].id
        /\ PlanNow[i].id[1] \in {"DaemonSet", "Deployment"} =>
              \E j \in 1..i-1 : PlanNow[j].id = <<"ServiceAccount", PlanNow[i].body.account, probe.config>>
        /\ PlanNow[i].id[1] = "ClusterRoleBinding" =>
              \E j \in 1..i-1 : PlanNow[j].id = <<"ClusterRole", PlanNow[i].id[2], probe.config>>

\* A DaemonSet that a spec asks for is scheduled by a label that the same spec
\* puts on its nodes (node selectors of daemonset.go against reconcileNodeLabels).
DaemonSetsHaveNodes ==
    \A obj \in ChildrenNow :
        obj.id[1] = "DaemonSet" => Labelled(probe.labels, probe.config, probe.spec)[obj.body.target] = "true"

\* handleDeletion reaches every object Reconcile writes, by label or by name.
DeletionCoversPlan ==
    \A obj \in WrittenNow :
        \/ \E i \in DOMAIN DeletionOrder(probe.config) : DeletionOrder(probe.config)[i] = <<obj.id[1], obj.label>>
        \/ obj.id \in ClusterScoped(probe.config, probe.openshift)

\* On OpenShift a workload that asks for a privileged container (the security
\* contexts of daemonset.go) runs under an account that the same pass binds to
\* the privileged SCC (SCCClusterRoleBinding).
PrivilegedHaveSCC ==
    probe.openshift =>
        \A obj \in ChildrenNow :
            obj.id[1] \in {"DaemonSet", "Deployment"} /\ obj.body.privileged
            => \E binding \in ChildrenNow :
                  binding.id = SCCClusterRoleBinding(probe.config).id /\ obj.body.account \in binding.body

\* The operator's role covers its calls on every object it renders: Get through
\* an informer, Create and Update in createOrUpdate, and Delete of what
\* handleDeletion removes, although the markers stand far from the calls.
RoleCoversCalls ==
    \A obj \in WrittenNow :
        \A verb \in Read \cup {"create", "update", "delete"} : Holds(verb, obj.id[1])

\* A node that reconcileNodeLabels would label is one whose events reach the
\* config (nodeMatchesCfg reads a missing label as ""), and labelling it keeps
\* it selected, so that the next pass still counts it.
WatchCoversSelection ==
    LET selector == nodeListOption(probe.config, probe.spec) IN
    MatchingLabels(probe.labels, selector) =>
        /\ nodeMatchesCfg(probe.labels, probe.config, probe.spec)
        /\ MatchingLabels(Labelled(probe.labels, probe.config, probe.spec), selector)

\* The first of a sequence of settings that is set.
FirstSet(settings) ==
    settings[CHOOSE i \in DOMAIN settings : settings[i] # "" /\ \A j \in 1..i-1 : settings[j] = ""]

\* README: "Priority: per-component override > CR tag/registry > env var >
\* compiled default", for every component a plan deploys (imageFor, Image).
ImagePriority ==
    LET images == IF probe.spec.images = Nil
                  THEN [registry |-> "", tag |-> "", overrides |-> <<>>] ELSE probe.spec.images
    IN  \A component \in {"device-plugin", "status-updater", "metrics-exporter", "topology-server",
                          "mig-faker", "dra-plugin", "compute-domain-controller", "compute-domain-dra"} :
            LET image == imageFor(probe.spec, component) IN
            IF component \in DOMAIN images.overrides
            THEN image = <<images.overrides[component]>>
            ELSE /\ image[1] = FirstSet(<<images.registry, RelatedImageRegistry, "ghcr.io/run-ai/fake-gpu-operator">>)
                 /\ image[3] = FirstSet(<<images.tag, RelatedImageTag, "0.1.0">>)
=============================================================================
