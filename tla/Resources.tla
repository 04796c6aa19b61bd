----------------------------- MODULE Resources -----------------------------
(***************************************************************************)
(* The child objects the operator renders from a FakeGPUConfig             *)
(* (internal/resources), and the order Reconcile writes them in.           *)
(*                                                                         *)
(* A child is a record:                                                    *)
(*   id     <<kind, name prefix, name suffix>>: its API identity.  The     *)
(*          suffix is the config, the profile name or the node the name    *)
(*          ends with, Nil for a fixed name.  Children with equal ids are  *)
(*          one API object.                                                *)
(*   label  the label handleDeletion can find it by                        *)
(*   body   what else of its content depends on the config or is referred  *)
(*          to by another object (account, scheduling label, image, data)  *)
(* Environment variables, volumes and ports are fixed text and are left    *)
(* out; the rules of the roles are in Permissions.                         *)
(***************************************************************************)
EXTENDS FakeGPUConfig, Sequences

CONSTANTS Nodes, Specs

ChildKinds == {"ServiceAccount", "ClusterRole", "ClusterRoleBinding", "ConfigMap",
               "DaemonSet", "Deployment", "Service", "RuntimeClass"}

\* commonLabels: the part of it that a list call selects on.
Instance(c) == <<"app.kubernetes.io/instance", c>>

\* The label of the per-node topology ConfigMaps, which carry no instance.
NodeTopology == <<"node-topology", "true">>

Child(kind, prefix, suffix, label, body) ==
    [id |-> <<kind, prefix, suffix>>, label |-> label, body |-> body]

-----------------------------------------------------------------------------
(* rbac.go *)

ServiceAccount(c, component) == Child("ServiceAccount", component, c, Instance(c), Nil)

DevicePluginClusterRole(c)    == Child("ClusterRole", "fake-gpu-device-plugin", c, Instance(c), Nil)
StatusUpdaterClusterRole(c)   == Child("ClusterRole", "fake-gpu-status-updater", c, Instance(c), Nil)
MetricsExporterClusterRole(c) == Child("ClusterRole", "fake-gpu-metrics-exporter", c, Instance(c), Nil)
SCCClusterRole(c)             == Child("ClusterRole", "fake-gpu-scc", c, Instance(c), Nil)

\* A binding has the name of its role; body lists the accounts it is for.
ClusterRoleBinding(c, component, role) ==
    Child("ClusterRoleBinding", role.id[2], c, Instance(c), {component})

\* (Mutant: the device plugin is not granted the SCC.)
SCCClusterRoleBinding_NoDevicePlugin(c) ==
    Child("ClusterRoleBinding", "fake-gpu-scc", c, Instance(c), {"metrics-exporter", "status-updater"})

SCCClusterRoleBinding(c) ==
    Child("ClusterRoleBinding", "fake-gpu-scc", c, Instance(c),
          {"device-plugin", "metrics-exporter", "status-updater"})

-----------------------------------------------------------------------------
(* daemonset.go and deployment.go: account is the prefix of the service     *)
(* account's name, target the node label the pods are scheduled by.         *)

\* (Mutant: every DaemonSet is given an account named after its component.)
DaemonSet_OwnAccount(c, spec, name, component, account, target, privileged) ==
    Child("DaemonSet", name, c, Instance(c),
          [account |-> component, target |-> target, privileged |-> privileged,
           image |-> imageFor(spec, component)])

DaemonSet(c, spec, name, component, account, target, privileged) ==
    Child("DaemonSet", name, c, Instance(c),
          [account |-> account, target |-> target, privileged |-> privileged,
           image |-> imageFor(spec, component)])

DevicePluginDaemonSet(c, spec) ==
    DaemonSet(c, spec, "device-plugin", "device-plugin", "device-plugin", deployDPLabel, TRUE)
MetricsExporterDaemonSet(c, spec) ==
    DaemonSet(c, spec, "nvidia-dcgm-exporter", "metrics-exporter", "metrics-exporter", deployDCGMLabel, FALSE)
MIGFakerDaemonSet(c, spec) ==
    DaemonSet(c, spec, "mig-faker", "mig-faker", "device-plugin", dynamicMIGLabel, TRUE)
DRAPluginDaemonSet(c, spec) ==
    DaemonSet(c, spec, "dra-plugin", "dra-plugin", "device-plugin", deployDRALabel, TRUE)
ComputeDomainDRADaemonSet(c, spec) ==
    DaemonSet(c, spec, "compute-domain-dra", "compute-domain-dra", "device-plugin", deployCDLabel, TRUE)

Deployment(c, spec, component, account) ==
    Child("Deployment", component, c, Instance(c),
          [account |-> account, target |-> Nil, privileged |-> FALSE, image |-> imageFor(spec, component)])

StatusUpdaterDeployment(c, spec)  == Deployment(c, spec, "status-updater", "status-updater")
TopologyServerDeployment(c, spec) == Deployment(c, spec, "topology-server", "topology-server")
ComputeDomainControllerDeployment(c, spec) ==
    Deployment(c, spec, "compute-domain-controller", "device-plugin")

-----------------------------------------------------------------------------
(* service.go, runtimeclass.go: body of a service is the component it       *)
(* selects the pods of.                                                     *)

MetricsExporterService(c) == Child("Service", "nvidia-dcgm-exporter", c, Instance(c), "metrics-exporter")
TopologyServerService(c)  == Child("Service", "topology-server", c, Instance(c), "topology-server")

NvidiaRuntimeClass(c) == Child("RuntimeClass", "nvidia", Nil, Instance(c), Nil)

-----------------------------------------------------------------------------
(* configmap.go *)

\* product and memory are the custom ones when custom is set: resolveProfile
\* has already put those into the profile.
TopologyConfigMap(c, spec) ==
    LET profile == resolveProfile(spec) IN
    Child("ConfigMap", "topology", Nil, Instance(c),
          [pool |-> c, gpus |-> spec.gpuCount, memory |-> profile.Memory,
           product |-> profile.Product, mig |-> migStrategy(spec)])

\* device_count is the literal 8; memory is written in bytes.
GPUProfileConfigMap(c, spec) ==
    LET profile == resolveProfile(spec) IN
    Child("ConfigMap", "gpu-profile", profile.Name, Instance(c),
          [gpus |-> 8, memory |-> profile.Memory, product |-> profile.Product,
           architecture |-> profile.Architecture])

\* Rendered with no GPU allocated to a pod.
NodeTopologyConfigMap(n, spec) ==
    LET profile == resolveProfile(spec) IN
    Child("ConfigMap", "topology", n, NodeTopology,
          [gpus |-> spec.gpuCount, memory |-> profile.Memory,
           product |-> profile.Product, mig |-> migStrategy(spec), allocated |-> FALSE])

\* A node topology in which the status updater has entered the pods that hold
\* a GPU (allocatedBy of a GPU's status).
Allocated(topology) == [topology EXCEPT !.body.allocated = TRUE]

-----------------------------------------------------------------------------
(* The order of the writes of one Reconcile, up to the node labels. *)

\* reconcileRBAC up to its call of detectOpenShift.
AccountsAndRoles(c) ==
    <<ServiceAccount(c, "device-plugin"), ServiceAccount(c, "status-updater"),
      ServiceAccount(c, "metrics-exporter"), ServiceAccount(c, "topology-server"),
      DevicePluginClusterRole(c),
      ClusterRoleBinding(c, "device-plugin", DevicePluginClusterRole(c)),
      StatusUpdaterClusterRole(c),
      ClusterRoleBinding(c, "status-updater", StatusUpdaterClusterRole(c)),
      MetricsExporterClusterRole(c),
      ClusterRoleBinding(c, "metrics-exporter", MetricsExporterClusterRole(c))>>

\* The last write before detectOpenShift is asked.
LastBeforeSCC == 10

When(condition, children) == IF condition THEN children ELSE <<>>

\* Reconcile's writes in code order; openshift is what detectOpenShift returned.
Plan(c, spec, openshift) ==
    AccountsAndRoles(c)
    \o When(openshift, <<SCCClusterRole(c), SCCClusterRoleBinding(c)>>)
    \o <<TopologyConfigMap(c, spec), GPUProfileConfigMap(c, spec), DevicePluginDaemonSet(c, spec)>>
    \o When(OnByDefault(spec, "statusUpdater"), <<StatusUpdaterDeployment(c, spec)>>)
    \o When(OnByDefault(spec, "metricsExporter"), <<MetricsExporterDaemonSet(c, spec)>>)
    \o When(OnByDefault(spec, "topologyServer"), <<TopologyServerDeployment(c, spec)>>)
    \o <<MetricsExporterService(c), TopologyServerService(c)>>
    \o When(MIGEnabled(spec), <<MIGFakerDaemonSet(c, spec)>>)
    \o When(OffByDefault(spec, "dra"), <<DRAPluginDaemonSet(c, spec)>>)
    \o When(OffByDefault(spec, "computeDomainController"),
            <<ComputeDomainControllerDeployment(c, spec), ComputeDomainDRADaemonSet(c, spec)>>)
    \o <<NvidiaRuntimeClass(c)>>

-----------------------------------------------------------------------------
(* The deletions of handleDeletion. *)

\* (Mutants: the accounts go first; the services are forgotten.)
DeletionOrder_AccountsFirst(c) ==
    <<<<"ServiceAccount", Instance(c)>>, <<"DaemonSet", Instance(c)>>, <<"Deployment", Instance(c)>>,
      <<"Service", Instance(c)>>, <<"ConfigMap", Instance(c)>>, <<"ConfigMap", NodeTopology>>>>
DeletionOrder_NoServices(c) ==
    <<<<"DaemonSet", Instance(c)>>, <<"Deployment", Instance(c)>>,
      <<"ServiceAccount", Instance(c)>>, <<"ConfigMap", Instance(c)>>, <<"ConfigMap", NodeTopology>>>>

\* What handleDeletion lists and deletes, in order: <<kind, label>>.  The last
\* list names no config.
DeletionOrder(c) ==
    <<<<"DaemonSet", Instance(c)>>, <<"Deployment", Instance(c)>>, <<"Service", Instance(c)>>,
      <<"ServiceAccount", Instance(c)>>, <<"ConfigMap", Instance(c)>>, <<"ConfigMap", NodeTopology>>>>

\* What it then deletes by name.
ClusterScoped(c, openshift) ==
    ({"ClusterRole", "ClusterRoleBinding"}
        \X ({"fake-gpu-device-plugin", "fake-gpu-status-updater", "fake-gpu-metrics-exporter"}
               \cup (IF openshift THEN {"fake-gpu-scc"} ELSE {}))
        \X {c})
    \cup {<<"RuntimeClass", "nvidia", Nil>>}

-----------------------------------------------------------------------------
(* Everything the operator can ever write, and the API identities of it. *)

ValidSpecs == {s \in Specs : resolveProfile(s) # Nil}

Planned(c, spec, openshift) ==
    {Plan(c, spec, openshift)[i] : i \in DOMAIN Plan(c, spec, openshift)}

PlannedObjects == UNION {Planned(c, s, o) : c \in Configs, s \in ValidSpecs, o \in BOOLEAN}
NodeTopologies == {NodeTopologyConfigMap(n, s) : n \in Nodes, s \in ValidSpecs}

Objects == PlannedObjects \cup NodeTopologies \cup {Allocated(t) : t \in NodeTopologies}
Ids == {o.id : o \in Objects}
=============================================================================
