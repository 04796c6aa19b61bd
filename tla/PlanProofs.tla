----------------------------- MODULE PlanProofs -----------------------------
(***************************************************************************)
(* What internal/resources renders and in which order Reconcile writes it, *)
(* for all configs and specs: names and labels, which tell the children of *)
(* one config from those of another and which handleDeletion finds them    *)
(* by, and the order of accounts, roles, bindings and workloads.           *)
(***************************************************************************)
EXTENDS Permissions, SequenceTheorems, TLAPS

ClusterKinds == {"ClusterRole", "ClusterRoleBinding", "RuntimeClass"}

\* What a child rendered for a config is called: with the config's instance
\* label, with its name unless it is shared, and within reach of handleDeletion.
WellNamed(obj, c, openshift) ==
    /\ obj.label = Instance(c)
    /\ obj.id[1] \in ChildKinds
    /\ obj.id[1] \notin {"ConfigMap", "RuntimeClass"} => obj.id[3] = c
    /\ obj.id[1] = "RuntimeClass" => obj.id[3] = Nil
    /\ obj.id[1] \in ClusterKinds => obj.id \in ClusterScoped(c, openshift)

Accounts(c) ==
    {ServiceAccount(c, "device-plugin"), ServiceAccount(c, "status-updater"),
     ServiceAccount(c, "metrics-exporter"), ServiceAccount(c, "topology-server")}

Roles(c) ==
    {DevicePluginClusterRole(c), ClusterRoleBinding(c, "device-plugin", DevicePluginClusterRole(c)),
     StatusUpdaterClusterRole(c), ClusterRoleBinding(c, "status-updater", StatusUpdaterClusterRole(c)),
     MetricsExporterClusterRole(c),
     ClusterRoleBinding(c, "metrics-exporter", MetricsExporterClusterRole(c))}

SCCs(c, openshift) == IF openshift THEN {SCCClusterRole(c), SCCClusterRoleBinding(c)} ELSE {}

Only(condition, objects) == IF condition THEN objects ELSE {}

DaemonSets(c, s) ==
    {DevicePluginDaemonSet(c, s)}
    \cup Only(OnByDefault(s, "metricsExporter"), {MetricsExporterDaemonSet(c, s)})
    \cup Only(MIGEnabled(s), {MIGFakerDaemonSet(c, s)})
    \cup Only(OffByDefault(s, "dra"), {DRAPluginDaemonSet(c, s)})
    \cup Only(OffByDefault(s, "computeDomainController"), {ComputeDomainDRADaemonSet(c, s)})

Deployments(c, s) ==
    {StatusUpdaterDeployment(c, s), TopologyServerDeployment(c, s),
     ComputeDomainControllerDeployment(c, s)}

Rest(c, s) ==
    {MetricsExporterService(c), TopologyServerService(c), NvidiaRuntimeClass(c),
     TopologyConfigMap(c, s), GPUProfileConfigMap(c, s)}

\* What comes after accounts, roles and bindings, and all of it.
Later(c, s) == DaemonSets(c, s) \cup Deployments(c, s) \cup Rest(c, s)

Rendered(c, s, openshift) == Accounts(c) \cup Roles(c) \cup SCCs(c, openshift) \cup Later(c, s)

-----------------------------------------------------------------------------
\* Everything rendered is well named.
LEMMA RenderedNamed ==
    ASSUME NEW c, NEW s, NEW openshift \in BOOLEAN, NEW obj \in Rendered(c, s, openshift)
    PROVE  WellNamed(obj, c, openshift)
<1>1. CASE obj \in Accounts(c)
    BY <1>1 DEF Accounts, ServiceAccount, Child, WellNamed, ChildKinds, ClusterKinds
<1>2. CASE obj \in Roles(c)
    <2>1. obj.id \in {"ClusterRole", "ClusterRoleBinding"}
                        \X {"fake-gpu-device-plugin", "fake-gpu-status-updater", "fake-gpu-metrics-exporter"}
                        \X {c}
          /\ obj.label = Instance(c)
        BY <1>2 DEF Roles, DevicePluginClusterRole, StatusUpdaterClusterRole,
                    MetricsExporterClusterRole, ClusterRoleBinding, Child
    <2> QED BY <2>1 DEF WellNamed, ChildKinds, ClusterKinds, ClusterScoped
<1>3. CASE obj \in SCCs(c, openshift)
    <2>1. /\ openshift
          /\ obj.id \in {"ClusterRole", "ClusterRoleBinding"} \X {"fake-gpu-scc"} \X {c}
          /\ obj.label = Instance(c)
        BY <1>3 DEF SCCs, SCCClusterRole, SCCClusterRoleBinding, Child
    <2> QED BY <2>1 DEF WellNamed, ChildKinds, ClusterKinds, ClusterScoped
<1>4. CASE obj \in DaemonSets(c, s)
    BY <1>4 DEF DaemonSets, Only, DevicePluginDaemonSet, MetricsExporterDaemonSet, MIGFakerDaemonSet,
                DRAPluginDaemonSet, ComputeDomainDRADaemonSet, DaemonSet, Child, WellNamed, ChildKinds, ClusterKinds
<1>5. CASE obj \in Deployments(c, s)
    BY <1>5 DEF Deployments, StatusUpdaterDeployment, TopologyServerDeployment,
                ComputeDomainControllerDeployment, Deployment, Child, WellNamed, ChildKinds, ClusterKinds
<1>6. CASE obj \in Rest(c, s)
    BY <1>6 DEF Rest, MetricsExporterService, TopologyServerService, NvidiaRuntimeClass,
                TopologyConfigMap, GPUProfileConfigMap, Child, WellNamed, ChildKinds, ClusterKinds, ClusterScoped
<1> QED BY <1>1, <1>2, <1>3, <1>4, <1>5, <1>6 DEF Rendered, Later

-----------------------------------------------------------------------------
(* No object is written twice in a pass: children of one plan differ in    *)
(* their keys, kind and prefix of the name.                                *)

Key(obj) == <<obj.id[1], obj.id[2]>>

\* The elements of seq are among R, have keys in K, and no two the same one.
Keyed(seq, R, K) ==
    /\ seq \in Seq(R)
    /\ \A i \in DOMAIN seq : Key(seq[i]) \in K
    /\ \A i, j \in DOMAIN seq : i # j => Key(seq[i]) # Key(seq[j])

\* A plan is put together from parts with keys of their own.
LEMMA KeyedConcat ==
    ASSUME NEW R, NEW S, NEW K, NEW L, NEW s, NEW t, Keyed(s, R, K), Keyed(t, S, L), K \cap L = {}
    PROVE  Keyed(s \o t, R \cup S, K \cup L)
<1>1. s \in Seq(R \cup S) /\ t \in Seq(R \cup S)
    BY SeqMonotonic DEF Keyed
<1>2. /\ s \o t \in Seq(R \cup S)
      /\ Len(s \o t) = Len(s) + Len(t)
      /\ \A i \in 1 .. Len(s) + Len(t) : (s \o t)[i] = IF i <= Len(s) THEN s[i] ELSE t[i - Len(s)]
    BY <1>1, ConcatProperties
<1>3. DOMAIN s = 1 .. Len(s) /\ DOMAIN t = 1 .. Len(t) /\ Len(s) \in Nat /\ Len(t) \in Nat
      /\ DOMAIN (s \o t) = 1 .. Len(s) + Len(t)
    BY <1>1, <1>2, LenProperties
<1>4. \A i \in DOMAIN (s \o t) :
        \/ i \in DOMAIN s /\ (s \o t)[i] = s[i]
        \/ i - Len(s) \in DOMAIN t /\ (s \o t)[i] = t[i - Len(s)]
    BY <1>2, <1>3
<1>5. \A i \in DOMAIN (s \o t) : Key((s \o t)[i]) \in K \cup L
    BY <1>4 DEF Keyed
<1>6. ASSUME NEW i \in DOMAIN (s \o t), NEW j \in DOMAIN (s \o t), i # j
      PROVE  Key((s \o t)[i]) # Key((s \o t)[j])
    <2>1. CASE i \in DOMAIN s /\ (s \o t)[i] = s[i] /\ j \in DOMAIN s /\ (s \o t)[j] = s[j]
        BY <1>6, <2>1 DEF Keyed
    <2>2. CASE i - Len(s) \in DOMAIN t /\ (s \o t)[i] = t[i - Len(s)]
               /\ j - Len(s) \in DOMAIN t /\ (s \o t)[j] = t[j - Len(s)]
        <3>1. i - Len(s) # j - Len(s)
            BY <1>3, <1>6
        <3> QED BY <2>2, <3>1 DEF Keyed
    <2>3. CASE i \in DOMAIN s /\ (s \o t)[i] = s[i] /\ j - Len(s) \in DOMAIN t /\ (s \o t)[j] = t[j - Len(s)]
        <3>1. Key((s \o t)[i]) \in K /\ Key((s \o t)[j]) \in L
            BY <2>3 DEF Keyed
        <3> QED BY <3>1
    <2>4. CASE j \in DOMAIN s /\ (s \o t)[j] = s[j] /\ i - Len(s) \in DOMAIN t /\ (s \o t)[i] = t[i - Len(s)]
        <3>1. Key((s \o t)[j]) \in K /\ Key((s \o t)[i]) \in L
            BY <2>4 DEF Keyed
        <3> QED BY <3>1
    <2> QED BY <1>4, <2>1, <2>2, <2>3, <2>4
<1> QED BY <1>2, <1>5, <1>6 DEF Keyed

\* The elements are also among more.
LEMMA KeyedIn ==
    ASSUME NEW R, NEW S, NEW K, NEW seq, Keyed(seq, R, K), R \subseteq S
    PROVE  Keyed(seq, S, K)
BY SeqMonotonic DEF Keyed

\* The parts of a plan: one or two children, on a condition.
LEMMA OneKeyed ==
    ASSUME NEW R, NEW condition, NEW obj, condition => obj \in R
    PROVE  Keyed(When(condition, <<obj>>), R, {Key(obj)})
<1>1. CASE condition
    BY <1>1 DEF When, Keyed
<1>2. CASE ~condition
    BY <1>2, EmptySeq DEF When, Keyed
<1> QED BY <1>1, <1>2

LEMMA TwoKeyed ==
    ASSUME NEW R, NEW condition, NEW a, NEW b, condition => a \in R /\ b \in R, Key(a) # Key(b)
    PROVE  Keyed(When(condition, <<a, b>>), R, {Key(a), Key(b)})
<1>1. CASE condition
    BY <1>1 DEF When, Keyed
<1>2. CASE ~condition
    BY <1>2, EmptySeq DEF When, Keyed
<1> QED BY <1>1, <1>2

LEMMA ThreeKeyed ==
    ASSUME NEW R, NEW a \in R, NEW b \in R, NEW d \in R, Key(a) # Key(b), Key(a) # Key(d), Key(b) # Key(d)
    PROVE  Keyed(<<a, b, d>>, R, {Key(a), Key(b), Key(d)})
BY DEF Keyed

\* The keys of the first ten writes, and those of the roles for OpenShift too.
AccountKeys ==
    {"ServiceAccount", "ClusterRole", "ClusterRoleBinding"}
        \X {"device-plugin", "status-updater", "metrics-exporter", "topology-server",
            "fake-gpu-device-plugin", "fake-gpu-status-updater", "fake-gpu-metrics-exporter"}

RootKeys == AccountKeys \cup {<<"ClusterRole", "fake-gpu-scc">>, <<"ClusterRoleBinding", "fake-gpu-scc">>}

LEMMA AccountsKeyed ==
    ASSUME NEW c
    PROVE  Keyed(AccountsAndRoles(c), Accounts(c) \cup Roles(c), AccountKeys)
BY DEF AccountsAndRoles, Keyed, Key, AccountKeys, Accounts, Roles, ServiceAccount, DevicePluginClusterRole,
       StatusUpdaterClusterRole, MetricsExporterClusterRole, ClusterRoleBinding, Child

\* The keys of the other children.
LEMMA Keys ==
    ASSUME NEW c, NEW s
    PROVE  /\ Key(SCCClusterRole(c)) = <<"ClusterRole", "fake-gpu-scc">>
           /\ Key(SCCClusterRoleBinding(c)) = <<"ClusterRoleBinding", "fake-gpu-scc">>
           /\ Key(TopologyConfigMap(c, s)) = <<"ConfigMap", "topology">>
           /\ Key(GPUProfileConfigMap(c, s)) = <<"ConfigMap", "gpu-profile">>
           /\ Key(DevicePluginDaemonSet(c, s)) = <<"DaemonSet", "device-plugin">>
           /\ Key(MetricsExporterDaemonSet(c, s)) = <<"DaemonSet", "nvidia-dcgm-exporter">>
           /\ Key(MIGFakerDaemonSet(c, s)) = <<"DaemonSet", "mig-faker">>
           /\ Key(DRAPluginDaemonSet(c, s)) = <<"DaemonSet", "dra-plugin">>
           /\ Key(ComputeDomainDRADaemonSet(c, s)) = <<"DaemonSet", "compute-domain-dra">>
           /\ Key(StatusUpdaterDeployment(c, s)) = <<"Deployment", "status-updater">>
           /\ Key(TopologyServerDeployment(c, s)) = <<"Deployment", "topology-server">>
           /\ Key(ComputeDomainControllerDeployment(c, s)) = <<"Deployment", "compute-domain-controller">>
           /\ Key(MetricsExporterService(c)) = <<"Service", "nvidia-dcgm-exporter">>
           /\ Key(TopologyServerService(c)) = <<"Service", "topology-server">>
           /\ Key(NvidiaRuntimeClass(c)) = <<"RuntimeClass", "nvidia">>
<1>1. \A kind, prefix, suffix, label, body : Key(Child(kind, prefix, suffix, label, body)) = <<kind, prefix>>
    BY DEF Key, Child
<1> QED
    BY <1>1 DEF SCCClusterRole, SCCClusterRoleBinding, TopologyConfigMap, GPUProfileConfigMap,
        DevicePluginDaemonSet, MetricsExporterDaemonSet, MIGFakerDaemonSet, DRAPluginDaemonSet,
        ComputeDomainDRADaemonSet, DaemonSet, StatusUpdaterDeployment, TopologyServerDeployment,
        ComputeDomainControllerDeployment, Deployment, MetricsExporterService, TopologyServerService,
        NvidiaRuntimeClass

\* What comes after the roles.
LEMMA LaterHas ==
    ASSUME NEW c, NEW s
    PROVE  /\ TopologyConfigMap(c, s) \in Later(c, s)
           /\ GPUProfileConfigMap(c, s) \in Later(c, s)
           /\ DevicePluginDaemonSet(c, s) \in Later(c, s)
           /\ StatusUpdaterDeployment(c, s) \in Later(c, s)
           /\ OnByDefault(s, "metricsExporter") => MetricsExporterDaemonSet(c, s) \in Later(c, s)
           /\ TopologyServerDeployment(c, s) \in Later(c, s)
           /\ MetricsExporterService(c) \in Later(c, s)
           /\ TopologyServerService(c) \in Later(c, s)
           /\ MIGEnabled(s) => MIGFakerDaemonSet(c, s) \in Later(c, s)
           /\ OffByDefault(s, "dra") => DRAPluginDaemonSet(c, s) \in Later(c, s)
           /\ ComputeDomainControllerDeployment(c, s) \in Later(c, s)
           /\ OffByDefault(s, "computeDomainController") => ComputeDomainDRADaemonSet(c, s) \in Later(c, s)
           /\ NvidiaRuntimeClass(c) \in Later(c, s)
BY DEF Later, DaemonSets, Deployments, Rest, Only

\* The start of a plan.
Roots(c, openshift) ==
    AccountsAndRoles(c) \o When(openshift, <<SCCClusterRole(c), SCCClusterRoleBinding(c)>>)

LEMMA RootsAre ==
    ASSUME NEW c, NEW openshift \in BOOLEAN
    PROVE  /\ DOMAIN Roots(c, openshift) = IF openshift THEN 1 .. 12 ELSE 1 .. 10
           /\ \A i \in 1 .. 10 : Roots(c, openshift)[i] = AccountsAndRoles(c)[i]
           /\ openshift => Roots(c, openshift)[11] = SCCClusterRole(c)
           /\ openshift => Roots(c, openshift)[12] = SCCClusterRoleBinding(c)
<1>1. CASE openshift
    BY <1>1 DEF Roots, When, AccountsAndRoles
<1>2. CASE ~openshift
    BY <1>2 DEF Roots, When, AccountsAndRoles
<1> QED BY <1>1, <1>2

LEMMA RootsKeyed ==
    ASSUME NEW c, NEW openshift \in BOOLEAN
    PROVE  Keyed(Roots(c, openshift), Accounts(c) \cup Roles(c) \cup SCCs(c, openshift), RootKeys)
<1> DEFINE SCCKeys == {<<"ClusterRole", "fake-gpu-scc">>, <<"ClusterRoleBinding", "fake-gpu-scc">>}
           scc     == When(openshift, <<SCCClusterRole(c), SCCClusterRoleBinding(c)>>)
<1>1. Keyed(scc, SCCs(c, openshift), SCCKeys)
    BY TwoKeyed, Keys DEF SCCs
<1>2. AccountKeys \cap SCCKeys = {} /\ AccountKeys \cup SCCKeys = RootKeys
    BY DEF AccountKeys, RootKeys
<1> QED BY <1>1, <1>2, AccountsKeyed, KeyedConcat DEF Roots

\* A sequence that goes on from another with elements of a set.
Continues(seq, head, T) ==
    /\ DOMAIN head \subseteq DOMAIN seq
    /\ \A i \in DOMAIN head : seq[i] = head[i]
    /\ \A i \in DOMAIN seq \ DOMAIN head : seq[i] \in T

LEMMA Appended ==
    ASSUME NEW R, NEW T, T \subseteq R, NEW K, NEW L, NEW s, NEW t, NEW head,
           Keyed(s, R, K), Keyed(t, T, L), K \cap L = {}, Continues(s, head, T)
    PROVE  Keyed(s \o t, R, K \cup L) /\ Continues(s \o t, head, T)
<1>1. Keyed(s \o t, R, K \cup L)
    <2>1. R \cup T = R
        OBVIOUS
    <2> QED BY <2>1, KeyedConcat
<1>2. s \in Seq(R) /\ t \in Seq(R) /\ t \in Seq(T)
    BY SeqMonotonic DEF Keyed
<1>3. /\ DOMAIN s = 1 .. Len(s) /\ DOMAIN t = 1 .. Len(t) /\ Len(s) \in Nat /\ Len(t) \in Nat
      /\ DOMAIN (s \o t) = 1 .. Len(s) + Len(t)
      /\ \A i \in 1 .. Len(s) + Len(t) : (s \o t)[i] = IF i <= Len(s) THEN s[i] ELSE t[i - Len(s)]
    <2>1. /\ s \o t \in Seq(R)
          /\ Len(s \o t) = Len(s) + Len(t)
          /\ \A i \in 1 .. Len(s) + Len(t) : (s \o t)[i] = IF i <= Len(s) THEN s[i] ELSE t[i - Len(s)]
        BY <1>2, ConcatProperties
    <2> QED BY <1>2, <2>1, LenProperties
<1>4. \A i \in DOMAIN t : t[i] \in T
    BY <1>2, <1>3, ElementOfSeq
<1>5. DOMAIN s \subseteq DOMAIN (s \o t) /\ \A i \in DOMAIN s : (s \o t)[i] = s[i]
    BY <1>3
<1>6. \A i \in DOMAIN (s \o t) \ DOMAIN s : (s \o t)[i] \in T
    BY <1>3, <1>4
<1>7. Continues(s \o t, head, T)
    BY <1>5, <1>6 DEF Continues
<1> QED BY <1>1, <1>7

\* A plan starts with the roots, and no object is in it twice.
LEMMA PlanKeyed ==
    ASSUME NEW c, NEW s, NEW openshift \in BOOLEAN
    PROVE  /\ \E K : Keyed(Plan(c, s, openshift), Rendered(c, s, openshift), K)
           /\ Continues(Plan(c, s, openshift), Roots(c, openshift), Later(c, s))
<1> DEFINE R        == Rendered(c, s, openshift)
           T        == Later(c, s)
           first    == <<TopologyConfigMap(c, s), GPUProfileConfigMap(c, s), DevicePluginDaemonSet(c, s)>>
           updater  == When(OnByDefault(s, "statusUpdater"), <<StatusUpdaterDeployment(c, s)>>)
           exporter == When(OnByDefault(s, "metricsExporter"), <<MetricsExporterDaemonSet(c, s)>>)
           topology == When(OnByDefault(s, "topologyServer"), <<TopologyServerDeployment(c, s)>>)
           services == <<MetricsExporterService(c), TopologyServerService(c)>>
           mig      == When(MIGEnabled(s), <<MIGFakerDaemonSet(c, s)>>)
           dra      == When(OffByDefault(s, "dra"), <<DRAPluginDaemonSet(c, s)>>)
           domain   == When(OffByDefault(s, "computeDomainController"),
                            <<ComputeDomainControllerDeployment(c, s), ComputeDomainDRADaemonSet(c, s)>>)
           runtime  == <<NvidiaRuntimeClass(c)>>
           K1 == {<<"ConfigMap", "topology">>, <<"ConfigMap", "gpu-profile">>, <<"DaemonSet", "device-plugin">>}
           K2 == {<<"Deployment", "status-updater">>}
           K3 == {<<"DaemonSet", "nvidia-dcgm-exporter">>}
           K4 == {<<"Deployment", "topology-server">>}
           K5 == {<<"Service", "nvidia-dcgm-exporter">>, <<"Service", "topology-server">>}
           K6 == {<<"DaemonSet", "mig-faker">>}
           K7 == {<<"DaemonSet", "dra-plugin">>}
           K8 == {<<"Deployment", "compute-domain-controller">>, <<"DaemonSet", "compute-domain-dra">>}
           K9 == {<<"RuntimeClass", "nvidia">>}
<1>1. Keyed(first, T, K1)
    <2>1. /\ Key(TopologyConfigMap(c, s)) = <<"ConfigMap", "topology">>
          /\ Key(GPUProfileConfigMap(c, s)) = <<"ConfigMap", "gpu-profile">>
          /\ Key(DevicePluginDaemonSet(c, s)) = <<"DaemonSet", "device-plugin">>
        BY Keys
    <2> QED BY <2>1, ThreeKeyed, LaterHas
<1>2. Keyed(updater, T, K2)
    BY OneKeyed, Keys, LaterHas
<1>3. Keyed(exporter, T, K3)
    BY OneKeyed, Keys, LaterHas
<1>4. Keyed(topology, T, K4)
    BY OneKeyed, Keys, LaterHas
<1>5. Keyed(services, T, K5)
    <2>1. Key(MetricsExporterService(c)) = <<"Service", "nvidia-dcgm-exporter">>
          /\ Key(TopologyServerService(c)) = <<"Service", "topology-server">>
        BY Keys
    <2>2. services = When(TRUE, services)
        BY DEF When
    <2>3. /\ MetricsExporterService(c) \in T /\ TopologyServerService(c) \in T
          /\ Key(MetricsExporterService(c)) # Key(TopologyServerService(c))
        BY <2>1, LaterHas
    <2>4. Keyed(When(TRUE, services), T, {Key(MetricsExporterService(c)), Key(TopologyServerService(c))})
        BY <2>3, TwoKeyed
    <2> QED BY <2>1, <2>2, <2>4
<1>6. Keyed(mig, T, K6)
    BY OneKeyed, Keys, LaterHas
<1>7. Keyed(dra, T, K7)
    BY OneKeyed, Keys, LaterHas
<1>8. Keyed(domain, T, K8)
    BY TwoKeyed, Keys, LaterHas
<1>9. Keyed(runtime, T, K9)
    <2>1. When(TRUE, runtime) = runtime
        BY DEF When
    <2>2. Keyed(When(TRUE, runtime), T, {Key(NvidiaRuntimeClass(c))})
        BY OneKeyed, LaterHas
    <2>3. {Key(NvidiaRuntimeClass(c))} = K9
        BY Keys
    <2> HIDE DEF runtime, T, K9
    <2> QED BY <2>1, <2>2, <2>3
<1>10. T \subseteq R
    BY DEF Rendered
<1>11. Keyed(Roots(c, openshift), R, RootKeys) /\ Continues(Roots(c, openshift), Roots(c, openshift), T)
    BY RootsKeyed, KeyedIn DEF Rendered, Continues
<1>12. /\ RootKeys \cap K1 = {}
       /\ (RootKeys \cup K1) \cap K2 = {}
       /\ (RootKeys \cup K1 \cup K2) \cap K3 = {}
       /\ (RootKeys \cup K1 \cup K2 \cup K3) \cap K4 = {}
       /\ (RootKeys \cup K1 \cup K2 \cup K3 \cup K4) \cap K5 = {}
       /\ (RootKeys \cup K1 \cup K2 \cup K3 \cup K4 \cup K5) \cap K6 = {}
       /\ (RootKeys \cup K1 \cup K2 \cup K3 \cup K4 \cup K5 \cup K6) \cap K7 = {}
       /\ (RootKeys \cup K1 \cup K2 \cup K3 \cup K4 \cup K5 \cup K6 \cup K7) \cap K8 = {}
       /\ (RootKeys \cup K1 \cup K2 \cup K3 \cup K4 \cup K5 \cup K6 \cup K7 \cup K8) \cap K9 = {}
    BY DEF RootKeys, AccountKeys
<1> HIDE DEF R, T, first, updater, exporter, topology, services, mig, dra, domain, runtime,
             K1, K2, K3, K4, K5, K6, K7, K8, K9
<1> DEFINE Good(seq, K) == Keyed(seq, R, K) /\ Continues(seq, Roots(c, openshift), T)
<1>13. \A seq, part, K, L : Good(seq, K) /\ Keyed(part, T, L) /\ K \cap L = {}
                                => Good(seq \o part, K \cup L)
    <2> SUFFICES ASSUME NEW seq, NEW part, NEW K, NEW L, Good(seq, K), Keyed(part, T, L), K \cap L = {}
                 PROVE  Good(seq \o part, K \cup L)
        OBVIOUS
    <2> QED BY <1>10, Appended
<1>14. Good(Roots(c, openshift), RootKeys)
    BY <1>11
<1> HIDE DEF Good
<1>15. Good(Roots(c, openshift) \o first \o updater \o exporter, RootKeys \cup K1 \cup K2 \cup K3)
    BY <1>1, <1>2, <1>3, <1>12, <1>13, <1>14
<1>16. Good(Roots(c, openshift) \o first \o updater \o exporter \o topology \o services \o mig,
            RootKeys \cup K1 \cup K2 \cup K3 \cup K4 \cup K5 \cup K6)
    BY <1>4, <1>5, <1>6, <1>12, <1>13, <1>15
<1>17. Good(Roots(c, openshift) \o first \o updater \o exporter \o topology \o services \o mig
                \o dra \o domain \o runtime,
            RootKeys \cup K1 \cup K2 \cup K3 \cup K4 \cup K5 \cup K6 \cup K7 \cup K8 \cup K9)
    BY <1>7, <1>8, <1>9, <1>12, <1>13, <1>16
<1>18. Plan(c, s, openshift)
         = Roots(c, openshift) \o first \o updater \o exporter \o topology \o services \o mig
             \o dra \o domain \o runtime
    BY DEF Plan, Roots, first, updater, exporter, topology, services, mig, dra, domain, runtime
<1> QED BY <1>17, <1>18 DEF Good, R, T

-----------------------------------------------------------------------------
(* What others need to know of a plan. *)

\* The writes of a pass are among what can be rendered for its config.
LEMMA PlanRendered ==
    ASSUME NEW c, NEW s, NEW openshift \in BOOLEAN
    PROVE  Plan(c, s, openshift) \in Seq(Rendered(c, s, openshift))
BY PlanKeyed DEF Keyed

\* Different places in a plan are different objects.
LEMMA PlanDistinct ==
    ASSUME NEW c, NEW s, NEW openshift \in BOOLEAN,
           NEW i \in DOMAIN Plan(c, s, openshift), NEW j \in DOMAIN Plan(c, s, openshift), i # j
    PROVE  Plan(c, s, openshift)[i].id # Plan(c, s, openshift)[j].id
<1>1. Key(Plan(c, s, openshift)[i]) # Key(Plan(c, s, openshift)[j])
    BY PlanKeyed DEF Keyed
<1> QED BY <1>1 DEF Key

\* A pass writes nothing but well-named children.
LEMMA PlanNamed ==
    ASSUME NEW c, NEW s, NEW openshift \in BOOLEAN, NEW i \in DOMAIN Plan(c, s, openshift)
    PROVE  WellNamed(Plan(c, s, openshift)[i], c, openshift)
<1>1. Plan(c, s, openshift)[i] \in Rendered(c, s, openshift)
    BY PlanRendered
<1> QED BY <1>1, RenderedNamed

\* A node topology is a ConfigMap, with the node's name, also once its GPUs are allocated.
LEMMA TopologyNamed ==
    ASSUME NEW n, NEW s
    PROVE  /\ NodeTopologyConfigMap(n, s).id[1] = "ConfigMap"
           /\ Allocated(NodeTopologyConfigMap(n, s)).id = NodeTopologyConfigMap(n, s).id
BY DEF NodeTopologyConfigMap, Child, Allocated

\* An object is well named for some config, or a ConfigMap.
LEMMA ObjectNamed ==
    ASSUME NEW obj \in Objects
    PROVE  \/ obj.id[1] = "ConfigMap"
           \/ \E c \in Configs, o \in BOOLEAN : WellNamed(obj, c, o)
<1>1. CASE obj \in PlannedObjects
    <2>1. PICK c \in Configs, s \in ValidSpecs, o \in BOOLEAN : obj \in Planned(c, s, o)
        BY <1>1 DEF PlannedObjects
    <2> QED BY <2>1, PlanNamed DEF Planned
<1>2. CASE obj \in NodeTopologies
    BY <1>2, TopologyNamed DEF NodeTopologies
<1>3. CASE obj \in {Allocated(t) : t \in NodeTopologies}
    BY <1>3, TopologyNamed DEF NodeTopologies
<1> QED BY <1>1, <1>2, <1>3 DEF Objects

-----------------------------------------------------------------------------
(* The order of a plan. *)

\* Every child of a plan is among its roots or what comes later.
LEMMA PlannedParts ==
    ASSUME NEW c, NEW s, NEW openshift \in BOOLEAN, NEW i \in DOMAIN Plan(c, s, openshift)
    PROVE  \/ i \in DOMAIN Roots(c, openshift) /\ Plan(c, s, openshift)[i] = Roots(c, openshift)[i]
           \/ i \notin DOMAIN Roots(c, openshift) /\ Plan(c, s, openshift)[i] \in Later(c, s)
BY PlanKeyed DEF Continues

\* A workload asks for one of the four accounts.
LEMMA WorkloadAccounts ==
    ASSUME NEW c, NEW s, NEW obj \in Later(c, s)
    PROVE  /\ obj.id[1] # "ClusterRoleBinding"
           /\ obj.id[1] \in {"DaemonSet", "Deployment"} =>
                 obj.body.account \in {"device-plugin", "status-updater", "metrics-exporter", "topology-server"}
<1>1. CASE obj \in DaemonSets(c, s)
    BY <1>1 DEF DaemonSets, Only, DevicePluginDaemonSet, MetricsExporterDaemonSet, MIGFakerDaemonSet,
                DRAPluginDaemonSet, ComputeDomainDRADaemonSet, DaemonSet, Child
<1>2. CASE obj \in Deployments(c, s)
    BY <1>2 DEF Deployments, StatusUpdaterDeployment, TopologyServerDeployment,
                ComputeDomainControllerDeployment, Deployment, Child
<1>3. CASE obj \in Rest(c, s)
    BY <1>3 DEF Rest, MetricsExporterService, TopologyServerService, NvidiaRuntimeClass,
                TopologyConfigMap, GPUProfileConfigMap, Child
<1> QED BY <1>1, <1>2, <1>3 DEF Later

\* The workload at i comes after its account.
AccountFirst(seq, i, c) ==
    seq[i].id[1] \in {"DaemonSet", "Deployment"} =>
        \E j \in 1 .. i - 1 : seq[j].id = <<"ServiceAccount", seq[i].body.account, c>>

\* The binding at i comes after its role.
RoleFirst(seq, i, c) ==
    seq[i].id[1] = "ClusterRoleBinding" => \E j \in 1 .. i - 1 : seq[j].id = <<"ClusterRole", seq[i].id[2], c>>

\* The roots are no workloads, and a role comes before its binding.
LEMMA RootsInOrder ==
    ASSUME NEW c, NEW openshift \in BOOLEAN, NEW i \in DOMAIN Roots(c, openshift)
    PROVE  /\ Roots(c, openshift)[i].id[1] \notin {"DaemonSet", "Deployment"}
           /\ RoleFirst(Roots(c, openshift), i, c)
<1> DEFINE roots == Roots(c, openshift)
<1>1. \A j \in 1 .. 10 : roots[j] = AccountsAndRoles(c)[j]
    BY RootsAre
<1>2. /\ \A j \in 1 .. 4 : roots[j].id[1] = "ServiceAccount"
      /\ roots[5].id = <<"ClusterRole", "fake-gpu-device-plugin", c>>
      /\ roots[6].id = <<"ClusterRoleBinding", "fake-gpu-device-plugin", c>>
      /\ roots[7].id = <<"ClusterRole", "fake-gpu-status-updater", c>>
      /\ roots[8].id = <<"ClusterRoleBinding", "fake-gpu-status-updater", c>>
      /\ roots[9].id = <<"ClusterRole", "fake-gpu-metrics-exporter", c>>
      /\ roots[10].id = <<"ClusterRoleBinding", "fake-gpu-metrics-exporter", c>>
    BY <1>1 DEF AccountsAndRoles, ServiceAccount, DevicePluginClusterRole, StatusUpdaterClusterRole,
                MetricsExporterClusterRole, ClusterRoleBinding, Child
<1>3. ASSUME openshift
      PROVE  /\ roots[11].id = <<"ClusterRole", "fake-gpu-scc", c>>
             /\ roots[12].id = <<"ClusterRoleBinding", "fake-gpu-scc", c>>
    <2>1. roots[11] = SCCClusterRole(c)
        BY <1>3, RootsAre
    <2>2. roots[12] = SCCClusterRoleBinding(c)
        BY <1>3, RootsAre
    <2>3. /\ SCCClusterRole(c).id = <<"ClusterRole", "fake-gpu-scc", c>>
          /\ SCCClusterRoleBinding(c).id = <<"ClusterRoleBinding", "fake-gpu-scc", c>>
        BY DEF SCCClusterRole, SCCClusterRoleBinding, Child
    <2> QED BY <2>1, <2>2, <2>3
<1>4. i \in 1 .. 12 /\ (i > 10 => openshift)
    BY RootsAre
<1> HIDE DEF roots
<1>5. CASE i \in 1 .. 4
    BY <1>2, <1>5 DEF roots, RoleFirst
<1>6. CASE i \in {5, 7, 9} \/ i = 11
    BY <1>2, <1>3, <1>4, <1>6 DEF roots, RoleFirst
<1>7. CASE i \in {6, 8, 10} \/ i = 12
    <2>1. i - 1 \in 1 .. i - 1 /\ roots[i - 1].id = <<"ClusterRole", roots[i].id[2], c>>
        BY <1>2, <1>3, <1>4, <1>7
    <2>2. roots[i].id[1] = "ClusterRoleBinding"
        BY <1>2, <1>3, <1>4, <1>7
    <2> QED BY <2>1, <2>2 DEF roots, RoleFirst
<1> QED BY <1>4, <1>5, <1>6, <1>7

\* The four accounts are the first four writes.
LEMMA AccountsFirst ==
    ASSUME NEW c, NEW s, NEW openshift \in BOOLEAN,
           NEW account \in {"device-plugin", "status-updater", "metrics-exporter", "topology-server"}
    PROVE  \E j \in 1 .. 4 : Plan(c, s, openshift)[j].id = <<"ServiceAccount", account, c>>
<1>1. \A j \in 1 .. 4 : Plan(c, s, openshift)[j] = AccountsAndRoles(c)[j]
    <2>1. \A j \in 1 .. 4 : j \in DOMAIN Roots(c, openshift) /\ Roots(c, openshift)[j] = AccountsAndRoles(c)[j]
        BY RootsAre
    <2> QED BY <2>1, PlanKeyed DEF Continues
<1>2. /\ AccountsAndRoles(c)[1].id = <<"ServiceAccount", "device-plugin", c>>
      /\ AccountsAndRoles(c)[2].id = <<"ServiceAccount", "status-updater", c>>
      /\ AccountsAndRoles(c)[3].id = <<"ServiceAccount", "metrics-exporter", c>>
      /\ AccountsAndRoles(c)[4].id = <<"ServiceAccount", "topology-server", c>>
    BY DEF AccountsAndRoles, ServiceAccount, Child
<1> QED BY <1>1, <1>2

\* A plan is in order: no object is written twice, an account comes before the
\* workloads that run under it, a role before its binding.
LEMMA WritesInOrder ==
    ASSUME NEW c, NEW s, NEW openshift \in BOOLEAN, NEW i \in DOMAIN Plan(c, s, openshift)
    PROVE  /\ \A j \in 1 .. i - 1 : Plan(c, s, openshift)[j].id # Plan(c, s, openshift)[i].id
           /\ AccountFirst(Plan(c, s, openshift), i, c)
           /\ RoleFirst(Plan(c, s, openshift), i, c)
<1> DEFINE plan == Plan(c, s, openshift)
<1>1. DOMAIN plan = 1 .. Len(plan) /\ Len(plan) \in Nat
    BY PlanRendered, LenProperties
<1>2. \A j \in 1 .. i - 1 : j \in DOMAIN plan /\ j # i
    BY <1>1
<1>3. \A j \in 1 .. i - 1 : plan[j].id # plan[i].id
    BY <1>2, PlanDistinct
<1>4. DOMAIN Roots(c, openshift) = IF openshift THEN 1 .. 12 ELSE 1 .. 10
    BY RootsAre
<1>5. \A j \in DOMAIN Roots(c, openshift) : plan[j] = Roots(c, openshift)[j]
    BY PlanKeyed DEF Continues
<1> HIDE DEF plan
<1>6. CASE i \in DOMAIN Roots(c, openshift)
    <2>1. \A j \in 1 .. i - 1 : j \in DOMAIN Roots(c, openshift)
        BY <1>4, <1>6
    <2>2. \A j \in 1 .. i - 1 : plan[j] = Roots(c, openshift)[j]
        BY <1>5, <2>1
    <2>3. plan[i] = Roots(c, openshift)[i]
        BY <1>5, <1>6
    <2>4. AccountFirst(plan, i, c)
        BY <1>6, <2>3, RootsInOrder DEF AccountFirst
    <2>5. RoleFirst(plan, i, c)
        <3>1. RoleFirst(Roots(c, openshift), i, c)
            BY <1>6, RootsInOrder
        <3> QED BY <2>2, <2>3, <3>1 DEF RoleFirst
    <2> QED BY <1>3, <2>4, <2>5 DEF plan
<1>7. CASE i \notin DOMAIN Roots(c, openshift)
    <2>1. plan[i] \in Later(c, s)
        BY <1>7, PlannedParts DEF plan
    <2>2. 1 .. 4 \subseteq 1 .. i - 1
        BY <1>1, <1>4, <1>7 DEF plan
    <2>3. AccountFirst(plan, i, c)
        BY <2>1, <2>2, WorkloadAccounts, AccountsFirst DEF plan, AccountFirst
    <2>4. RoleFirst(plan, i, c)
        BY <2>1, WorkloadAccounts DEF RoleFirst
    <2> QED BY <1>3, <2>3, <2>4 DEF plan
<1> QED BY <1>6, <1>7
=============================================================================
