-------------------------- MODULE RenderingProofs --------------------------
(***************************************************************************)
(* Theorems about Rendering: what it promises holds for every spec, every  *)
(* set of node labels and all settings of the images.                      *)
(***************************************************************************)
EXTENDS Rendering, PlanProofs

\* The probe never changes, and is one of Probes.
LEMMA ProbeTyped ==
    Spec => [](/\ probe.config \in Configs /\ probe.config # Nil
               /\ probe.spec \in Specs /\ probe.labels \in Labels /\ probe.openshift \in BOOLEAN)
<1> DEFINE Typed == probe \in Probes
<1>1. Init => Typed
    BY DEF Init
<1>2. Typed /\ [Next]_probe => Typed'
    BY DEF Next
<1>3. Typed => /\ probe.config \in Configs /\ probe.config # Nil
               /\ probe.spec \in Specs /\ probe.labels \in Labels /\ probe.openshift \in BOOLEAN
    BY ProbesAssumption
<1> QED BY <1>1, <1>2, <1>3, PTL DEF Spec

\* Every plan is in order: no object is written twice, an account comes before
\* the workloads that run under it and a role before its binding (Reconcile).
THEOREM PlansInOrder == Spec => []PlanInOrder
<1>1. ASSUME probe.openshift \in BOOLEAN PROVE PlanInOrder
    <2>1. \A i \in DOMAIN PlanNow : /\ \A j \in 1 .. i - 1 : PlanNow[j].id # PlanNow[i].id
                                   /\ AccountFirst(PlanNow, i, probe.config)
                                   /\ RoleFirst(PlanNow, i, probe.config)
        BY <1>1, WritesInOrder DEF PlanNow
    <2> QED BY <2>1 DEF PlanInOrder, AccountFirst, RoleFirst
<1> QED BY <1>1, ProbeTyped, PTL

-----------------------------------------------------------------------------
(* Scheduling, deletion, privileges. *)

\* The children of a plan are rendered for the probe's config.
LEMMA ChildrenRendered ==
    ASSUME probe.openshift \in BOOLEAN, NEW obj \in ChildrenNow
    PROVE  /\ obj \in Rendered(probe.config, probe.spec, probe.openshift)
           /\ WellNamed(obj, probe.config, probe.openshift)
BY PlanRendered, PlanNamed, ElementOfSeq, LenProperties DEF ChildrenNow, Planned

\* A spec's DaemonSets are among those its switches ask for.
LEMMA DaemonSetsAsked ==
    ASSUME NEW c, NEW s, NEW openshift \in BOOLEAN,
           NEW obj \in Rendered(c, s, openshift), obj.id[1] = "DaemonSet"
    PROVE  obj \in DaemonSets(c, s)
<1>1. \A x \in Accounts(c) \cup Roles(c) : x.id[1] # "DaemonSet"
    BY DEF Accounts, Roles, ServiceAccount, DevicePluginClusterRole, StatusUpdaterClusterRole,
           MetricsExporterClusterRole, ClusterRoleBinding, Child
<1>2. \A x \in SCCs(c, openshift) : x.id[1] # "DaemonSet"
    BY DEF SCCs, SCCClusterRole, SCCClusterRoleBinding, Child
<1>3. \A x \in Deployments(c, s) : x.id[1] # "DaemonSet"
    BY DEF Deployments, StatusUpdaterDeployment, TopologyServerDeployment,
           ComputeDomainControllerDeployment, Deployment, Child
<1>4. \A x \in Rest(c, s) : x.id[1] # "DaemonSet"
    BY DEF Rest, MetricsExporterService, TopologyServerService, NvidiaRuntimeClass,
           TopologyConfigMap, GPUProfileConfigMap, Child
<1> QED BY <1>1, <1>2, <1>3, <1>4 DEF Rendered, Later

\* Every DaemonSet that a spec asks for is scheduled by a label that the same
\* spec puts on its nodes.
THEOREM DaemonSetsAreScheduled == Spec => []DaemonSetsHaveNodes
<1>1. ASSUME NEW c, NEW s, NEW obj \in DaemonSets(c, s)
      PROVE  obj.body.target \in DeployLabels(s)
    BY DEF DaemonSets, Only, DeployLabels, DevicePluginDaemonSet, MetricsExporterDaemonSet, MIGFakerDaemonSet,
           DRAPluginDaemonSet, ComputeDomainDRADaemonSet, DaemonSet, Child
<1>2. \A s : DeployLabels(s) \subseteq LabelKeys \ {nodePoolLabel}
    BY DEF DeployLabels, LabelKeys, OperatorLabels, nodePoolLabel, deployDPLabel, deployDCGMLabel,
           dynamicMIGLabel, deployDRALabel, deployCDLabel
<1>3. probe.openshift \in BOOLEAN => DaemonSetsHaveNodes
    <2> SUFFICES ASSUME probe.openshift \in BOOLEAN, NEW obj \in ChildrenNow, obj.id[1] = "DaemonSet"
                 PROVE  Labelled(probe.labels, probe.config, probe.spec)[obj.body.target] = "true"
        BY DEF DaemonSetsHaveNodes
    <2>1. obj.body.target \in DeployLabels(probe.spec)
        BY ChildrenRendered, DaemonSetsAsked, <1>1
    <2> QED BY <2>1, <1>2 DEF Labelled
<1> QED BY <1>3, ProbeTyped, PTL

\* Everything a pass writes is within reach of handleDeletion.
THEOREM DeletionReachesAll == Spec => []DeletionCoversPlan
<1>1. ASSUME NEW c, NEW kind \in {"DaemonSet", "Deployment", "Service", "ServiceAccount", "ConfigMap"}
      PROVE  \E i \in DOMAIN DeletionOrder(c) : DeletionOrder(c)[i] = <<kind, Instance(c)>>
    <2>1. /\ DOMAIN DeletionOrder(c) = 1 .. 6
          /\ DeletionOrder(c)[1] = <<"DaemonSet", Instance(c)>>
          /\ DeletionOrder(c)[2] = <<"Deployment", Instance(c)>>
          /\ DeletionOrder(c)[3] = <<"Service", Instance(c)>>
          /\ DeletionOrder(c)[4] = <<"ServiceAccount", Instance(c)>>
          /\ DeletionOrder(c)[5] = <<"ConfigMap", Instance(c)>>
        BY DEF DeletionOrder
    <2> QED BY <2>1
<1>2. ASSUME NEW c
      PROVE  \E i \in DOMAIN DeletionOrder(c) : DeletionOrder(c)[i] = <<"ConfigMap", NodeTopology>>
    <2>1. 6 \in DOMAIN DeletionOrder(c) /\ DeletionOrder(c)[6] = <<"ConfigMap", NodeTopology>>
        BY DEF DeletionOrder
    <2> QED BY <2>1
<1>3. ASSUME probe.openshift \in BOOLEAN PROVE DeletionCoversPlan
    <2> SUFFICES ASSUME NEW obj \in WrittenNow
                 PROVE  \/ \E i \in DOMAIN DeletionOrder(probe.config) :
                              DeletionOrder(probe.config)[i] = <<obj.id[1], obj.label>>
                        \/ obj.id \in ClusterScoped(probe.config, probe.openshift)
        BY DEF DeletionCoversPlan
    <2>1. CASE obj \in ChildrenNow
        <3>1. WellNamed(obj, probe.config, probe.openshift)
            BY <1>3, <2>1, ChildrenRendered
        <3>2. CASE obj.id[1] \in ClusterKinds
            BY <3>1, <3>2 DEF WellNamed
        <3>3. CASE obj.id[1] \notin ClusterKinds
            <4>1. obj.label = Instance(probe.config)
                  /\ obj.id[1] \in {"DaemonSet", "Deployment", "Service", "ServiceAccount", "ConfigMap"}
                BY <3>1, <3>3 DEF WellNamed, ClusterKinds, ChildKinds
            <4> QED BY <4>1, <1>1
        <3> QED BY <3>2, <3>3
    <2>2. CASE obj = NodeTopologyConfigMap(probe.node, probe.spec)
        <3>1. obj.id[1] = "ConfigMap" /\ obj.label = NodeTopology
            BY <2>2 DEF NodeTopologyConfigMap, Child
        <3> QED BY <3>1, <1>2
    <2> QED BY <2>1, <2>2 DEF WrittenNow
<1> QED BY <1>3, ProbeTyped, PTL

\* A privileged workload runs under the device plugin's account.
LEMMA PrivilegedAccount ==
    ASSUME NEW c, NEW s, NEW obj \in Later(c, s), obj.id[1] \in {"DaemonSet", "Deployment"}, obj.body.privileged
    PROVE  obj.body.account = "device-plugin"
<1>1. CASE obj \in DaemonSets(c, s)
    BY <1>1 DEF DaemonSets, Only, DevicePluginDaemonSet, MetricsExporterDaemonSet, MIGFakerDaemonSet,
                DRAPluginDaemonSet, ComputeDomainDRADaemonSet, DaemonSet, Child
<1>2. CASE obj \in Deployments(c, s)
    BY <1>2 DEF Deployments, StatusUpdaterDeployment, TopologyServerDeployment,
                ComputeDomainControllerDeployment, Deployment, Child
<1>3. CASE obj \in Rest(c, s)
    BY <1>3 DEF Rest, MetricsExporterService, TopologyServerService, NvidiaRuntimeClass,
                TopologyConfigMap, GPUProfileConfigMap, Child
<1> QED BY <1>1, <1>2, <1>3 DEF Later

\* On OpenShift the account of every privileged workload is bound to the
\* privileged SCC by the same plan.
THEOREM PrivilegedAreAdmitted == Spec => []PrivilegedHaveSCC
<1>1. ASSUME probe.openshift \in BOOLEAN PROVE PrivilegedHaveSCC
    <2> SUFFICES ASSUME probe.openshift = TRUE, NEW obj \in ChildrenNow,
                        obj.id[1] \in {"DaemonSet", "Deployment"}, obj.body.privileged
                 PROVE  \E binding \in ChildrenNow :
                            binding.id = SCCClusterRoleBinding(probe.config).id /\ obj.body.account \in binding.body
        BY <1>1 DEF PrivilegedHaveSCC
    <2>1. obj \in Later(probe.config, probe.spec)
        <3>1. PICK i \in DOMAIN PlanNow : obj = PlanNow[i]
            BY DEF ChildrenNow, Planned, PlanNow
        <3>2. i \in DOMAIN Roots(probe.config, probe.openshift)
                 => PlanNow[i].id[1] \notin {"DaemonSet", "Deployment"}
            BY <1>1, PlannedParts, RootsInOrder DEF PlanNow
        <3> QED BY <1>1, <3>1, <3>2, PlannedParts DEF PlanNow
    <2>2. obj.body.account = "device-plugin"
        BY <2>1, PrivilegedAccount
    <2>3. SCCClusterRoleBinding(probe.config) \in ChildrenNow
        <3>1. DOMAIN Roots(probe.config, probe.openshift) = 1 .. 12
            BY <1>1, RootsAre
        <3>2. Roots(probe.config, probe.openshift)[12] = SCCClusterRoleBinding(probe.config)
            BY <1>1, RootsAre
        <3>3. \A i \in 1 .. 12 : i \in DOMAIN PlanNow /\ PlanNow[i] = Roots(probe.config, probe.openshift)[i]
            BY <1>1, <3>1, PlanKeyed DEF Continues, PlanNow
        <3>4. 12 \in DOMAIN PlanNow
            BY <3>3
        <3>5. PlanNow[12] = SCCClusterRoleBinding(probe.config)
            BY <3>2, <3>3
        <3> QED BY <3>4, <3>5 DEF ChildrenNow, Planned, PlanNow
    <2>4. "device-plugin" \in SCCClusterRoleBinding(probe.config).body
        BY DEF SCCClusterRoleBinding, Child
    <2> QED BY <2>2, <2>3, <2>4
<1> QED BY <1>1, ProbeTyped, PTL

\* Under an identity that holds the operator's role, every call on every child is allowed.
THEOREM RoleSuffices ==
    ManagerRole \subseteq Grants => (Spec => []RoleCoversCalls)
<1> SUFFICES ASSUME ManagerRole \subseteq Grants
             PROVE  Spec => []RoleCoversCalls
    OBVIOUS
<1>1. ASSUME NEW kind \in ChildKinds, NEW verb \in Read \cup {"create", "update", "delete"}
      PROVE  Holds(verb, kind)
    <2>1. CASE kind \in {"ServiceAccount", "ConfigMap", "Service"}
        <3>1. <<"", API(kind)[2], verb>> \in Allow("", {"configmaps", "serviceaccounts", "services"}, Read \cup Write)
            BY <2>1 DEF API, Allow, Read, Write
        <3>2. API(kind)[1] = ""
            BY <2>1 DEF API
        <3> QED BY <3>1, <3>2 DEF Holds, ManagerRole
    <2>2. CASE kind \in {"DaemonSet", "Deployment"}
        <3>1. <<"apps", API(kind)[2], verb>> \in Allow("apps", {"daemonsets", "deployments"}, Read \cup Write)
            BY <2>2 DEF API, Allow, Read, Write
        <3>2. API(kind)[1] = "apps"
            BY <2>2 DEF API
        <3> QED BY <3>1, <3>2 DEF Holds, ManagerRole
    <2>3. CASE kind \in {"ClusterRole", "ClusterRoleBinding"}
        <3>1. <<"rbac.authorization.k8s.io", API(kind)[2], verb>>
                \in Allow("rbac.authorization.k8s.io", {"clusterroles", "clusterrolebindings"}, Read \cup Write)
            BY <2>3 DEF API, Allow, Read, Write
        <3>2. API(kind)[1] = "rbac.authorization.k8s.io"
            BY <2>3 DEF API
        <3> QED BY <3>1, <3>2 DEF Holds, ManagerRole
    <2>4. CASE kind = "RuntimeClass"
        <3>1. <<"node.k8s.io", API(kind)[2], verb>> \in Allow("node.k8s.io", {"runtimeclasses"}, Read \cup Write)
            BY <2>4 DEF API, Allow, Read, Write
        <3>2. API(kind)[1] = "node.k8s.io"
            BY <2>4 DEF API
        <3> QED BY <3>1, <3>2 DEF Holds, ManagerRole
    <2> QED BY <2>1, <2>2, <2>3, <2>4 DEF ChildKinds
<1>2. ASSUME probe.openshift \in BOOLEAN, NEW obj \in WrittenNow
      PROVE  obj.id[1] \in ChildKinds
    <2>1. CASE obj \in ChildrenNow
        BY <1>2, <2>1, ChildrenRendered DEF WellNamed
    <2>2. CASE obj = NodeTopologyConfigMap(probe.node, probe.spec)
        BY <2>2 DEF NodeTopologyConfigMap, Child, ChildKinds
    <2> QED BY <2>1, <2>2 DEF WrittenNow
<1>3. probe.openshift \in BOOLEAN => RoleCoversCalls
    BY <1>1, <1>2 DEF RoleCoversCalls
<1> QED BY <1>3, ProbeTyped, PTL

-----------------------------------------------------------------------------
(* Selection and images. *)

\* No selector asks for a label that is the operator's to set.
SelectorsOfUsers ==
    \A s \in Specs : \A p \in s.nodeSelector : p[1] \in UserLabels \ OperatorLabels /\ p[2] # Nil

\* Where selectors ask for the cluster's own labels, the nodes that are labelled
\* are nodes whose events reach the config, and labelling keeps them selected.
THEOREM WatchReachesSelection ==
    SelectorsOfUsers => (Spec => []WatchCoversSelection)
<1> SUFFICES ASSUME SelectorsOfUsers
             PROVE  Spec => []WatchCoversSelection
    OBVIOUS
<1>1. ASSUME probe.config # Nil, probe.spec \in Specs
      PROVE  WatchCoversSelection
    <2> DEFINE selector == nodeListOption(probe.config, probe.spec)
    <2> SUFFICES ASSUME MatchingLabels(probe.labels, selector)
                 PROVE  /\ nodeMatchesCfg(probe.labels, probe.config, probe.spec)
                        /\ MatchingLabels(Labelled(probe.labels, probe.config, probe.spec), selector)
        BY DEF WatchCoversSelection
    <2>1. CASE probe.spec.nodeSelector = {}
        <3>1. probe.labels[nodePoolLabel] = probe.config
            BY <2>1 DEF nodeListOption, MatchingLabels
        <3>2. nodeMatchesCfg(probe.labels, probe.config, probe.spec)
            BY <1>1, <2>1, <3>1 DEF nodeMatchesCfg, GoLookup
        <3>3. nodePoolLabel \in LabelKeys
            BY DEF LabelKeys, OperatorLabels
        <3>4. Labelled(probe.labels, probe.config, probe.spec)[nodePoolLabel] = probe.config
            BY <3>3 DEF Labelled
        <3> QED BY <2>1, <3>2, <3>4 DEF nodeListOption, MatchingLabels
    <2>2. CASE probe.spec.nodeSelector # {}
        <3>1. \A p \in probe.spec.nodeSelector : probe.labels[p[1]] = p[2]
            BY <2>2 DEF nodeListOption, MatchingLabels
        <3>2. \A p \in probe.spec.nodeSelector : p[1] \in UserLabels \ OperatorLabels /\ p[2] # Nil
            BY <1>1 DEF SelectorsOfUsers
        <3>3. nodeMatchesCfg(probe.labels, probe.config, probe.spec)
            BY <2>2, <3>1, <3>2 DEF nodeMatchesCfg, GoLookup
        <3>4. \A k \in UserLabels \ OperatorLabels :
                  Labelled(probe.labels, probe.config, probe.spec)[k] = probe.labels[k]
            <4>1. DeployLabels(probe.spec) \cup {nodePoolLabel} \subseteq OperatorLabels
                BY DEF DeployLabels, OperatorLabels
            <4> QED BY <4>1 DEF Labelled, LabelKeys
        <3> QED BY <2>2, <3>1, <3>2, <3>3, <3>4 DEF nodeListOption, MatchingLabels
    <2> QED BY <2>1, <2>2
<1> QED BY <1>1, ProbeTyped, PTL

\* Of three settings, the last of which is set, the first that is; empty is the
\* value of one that is not.
LEMMA FirstChosen ==
    ASSUME NEW settings, NEW empty, DOMAIN settings = {1, 2, 3}, settings[3] # empty
    PROVE  settings[CHOOSE i \in DOMAIN settings : settings[i] # empty /\ \A j \in 1 .. i - 1 : settings[j] = empty]
             = IF settings[1] # empty THEN settings[1] ELSE IF settings[2] # empty THEN settings[2] ELSE settings[3]
<1> DEFINE Comes(i) == settings[i] # empty /\ \A j \in 1 .. i - 1 : settings[j] = empty
           chosen   == CHOOSE i \in DOMAIN settings : Comes(i)
<1>1. \E i \in DOMAIN settings : Comes(i)
    <2>1. 1 .. 1 - 1 = {} /\ 1 .. 2 - 1 = {1} /\ 1 .. 3 - 1 = {1, 2}
        OBVIOUS
    <2>2. CASE settings[1] # empty
        BY <2>1, <2>2
    <2>3. CASE settings[1] = empty /\ settings[2] # empty
        BY <2>1, <2>3
    <2>4. CASE settings[1] = empty /\ settings[2] = empty
        BY <2>1, <2>4
    <2> QED BY <2>2, <2>3, <2>4
<1>2. chosen \in DOMAIN settings /\ Comes(chosen)
    BY <1>1
<1> HIDE DEF chosen
<1>3. CASE chosen = 1
    BY <1>2, <1>3
<1>4. CASE chosen = 2
    <2>1. 1 \in 1 .. chosen - 1
        BY <1>4
    <2> QED BY <1>2, <1>4, <2>1
<1>5. CASE chosen = 3
    <2>1. 1 \in 1 .. chosen - 1 /\ 2 \in 1 .. chosen - 1
        BY <1>5
    <2> QED BY <1>2, <1>5, <2>1
<1> QED BY <1>2, <1>3, <1>4, <1>5 DEF chosen

LEMMA FirstOfThree ==
    ASSUME NEW x, NEW y, NEW z
    PROVE  z # "" => FirstSet(<<x, y, z>>) = IF x # "" THEN x ELSE IF y # "" THEN y ELSE z
<1> DEFINE settings == <<x, y, z>>
<1>1. DOMAIN settings = {1, 2, 3} /\ settings[1] = x /\ settings[2] = y /\ settings[3] = z
    OBVIOUS
<1> HIDE DEF settings
<1>2. settings[3] # "" =>
          FirstSet(settings) = IF settings[1] # "" THEN settings[1]
                               ELSE IF settings[2] # "" THEN settings[2] ELSE settings[3]
    BY <1>1, FirstChosen DEF FirstSet
<1> QED BY <1>1, <1>2 DEF settings

\* Every image comes from the first of the settings that is set, in the
\* documented order.
THEOREM ImagesByPriority == Spec => []ImagePriority
<1>1. ASSUME NEW registry
      PROVE  FirstSet(<<registry, RelatedImageRegistry, "ghcr.io/run-ai/fake-gpu-operator">>)
               = IF registry = "" THEN DefaultRegistry ELSE registry
    <2> DEFINE compiled == "ghcr.io/run-ai/fake-gpu-operator"
    <2>1. compiled # ""
        OBVIOUS
    <2>2. DefaultRegistry = IF RelatedImageRegistry # "" THEN RelatedImageRegistry ELSE compiled
        BY DEF DefaultRegistry
    <2> HIDE DEF compiled
    <2>3. compiled # "" =>
              FirstSet(<<registry, RelatedImageRegistry, compiled>>)
                = IF registry # "" THEN registry ELSE IF RelatedImageRegistry # "" THEN RelatedImageRegistry ELSE compiled
        BY FirstOfThree, Zenon
    <2>4. FirstSet(<<registry, RelatedImageRegistry, compiled>>) = IF registry = "" THEN DefaultRegistry ELSE registry
        BY <2>1, <2>2, <2>3
    <2> QED BY <2>4 DEF compiled
<1>2. ASSUME NEW tag
      PROVE  FirstSet(<<tag, RelatedImageTag, "0.1.0">>) = IF tag = "" THEN DefaultTag ELSE tag
    <2> DEFINE compiled == "0.1.0"
    <2>1. compiled # ""
        OBVIOUS
    <2>2. DefaultTag = IF RelatedImageTag # "" THEN RelatedImageTag ELSE compiled
        BY DEF DefaultTag
    <2> HIDE DEF compiled
    <2>3. compiled # "" =>
              FirstSet(<<tag, RelatedImageTag, compiled>>)
                = IF tag # "" THEN tag ELSE IF RelatedImageTag # "" THEN RelatedImageTag ELSE compiled
        BY FirstOfThree, Zenon
    <2>4. FirstSet(<<tag, RelatedImageTag, compiled>>) = IF tag = "" THEN DefaultTag ELSE tag
        BY <2>1, <2>2, <2>3
    <2> QED BY <2>4 DEF compiled
<1>3. ASSUME NEW component, NEW registry, NEW tag, NEW overrides
      PROVE  IF component \in DOMAIN overrides
             THEN Image(component, registry, tag, overrides) = <<overrides[component]>>
             ELSE /\ Image(component, registry, tag, overrides)[1]
                       = FirstSet(<<registry, RelatedImageRegistry, "ghcr.io/run-ai/fake-gpu-operator">>)
                  /\ Image(component, registry, tag, overrides)[3]
                       = FirstSet(<<tag, RelatedImageTag, "0.1.0">>)
    <2>1. CASE component \in DOMAIN overrides
        BY <2>1 DEF Image
    <2>2. CASE component \notin DOMAIN overrides
        BY <2>2, <1>1, <1>2 DEF Image
    <2> QED BY <2>1, <2>2
<1>4. ASSUME probe.spec.images = Nil PROVE ImagePriority
    <2>1. ASSUME NEW component
          PROVE  imageFor(probe.spec, component) = Image(component, "", "", <<>>)
        BY <1>4 DEF imageFor
    <2>2. ASSUME NEW component
          PROVE  /\ imageFor(probe.spec, component)[1]
                      = FirstSet(<<"", RelatedImageRegistry, "ghcr.io/run-ai/fake-gpu-operator">>)
                 /\ imageFor(probe.spec, component)[3] = FirstSet(<<"", RelatedImageTag, "0.1.0">>)
        <3>1. component \notin DOMAIN <<>>
            OBVIOUS
        <3>2. imageFor(probe.spec, component) = Image(component, "", "", <<>>)
            BY <2>1
        <3>3. IF component \in DOMAIN <<>>
              THEN Image(component, "", "", <<>>) = << <<>>[component] >>
              ELSE /\ Image(component, "", "", <<>>)[1]
                        = FirstSet(<<"", RelatedImageRegistry, "ghcr.io/run-ai/fake-gpu-operator">>)
                   /\ Image(component, "", "", <<>>)[3] = FirstSet(<<"", RelatedImageTag, "0.1.0">>)
            BY <1>3, Zenon
        <3> QED BY <3>1, <3>2, <3>3, Zenon
    <2>3. \A component : component \notin DOMAIN <<>>
        OBVIOUS
    <2> QED BY <1>4, <2>2, <2>3 DEF ImagePriority
<1>5. ASSUME probe.spec.images # Nil PROVE ImagePriority
    BY <1>5, <1>3 DEF ImagePriority, imageFor
<1>6. ImagePriority
    BY <1>4, <1>5
<1> QED BY <1>6, PTL
=============================================================================
