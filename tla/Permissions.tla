---------------------------- MODULE Permissions ----------------------------
(***************************************************************************)
(* Who may do what (internal/resources/rbac.go, the rbac markers of        *)
(* fakegpuconfig_controller.go): the rules of the roles the operator       *)
(* renders, those of its own role, and the API server's decision on a      *)
(* write.  A rule is a set of <<API group, resource, verb>>; the resource  *)
(* of a rule with resourceNames is <<resource, name>>.                     *)
(***************************************************************************)
EXTENDS Resources

CONSTANT Grants  \* what the identity that the manager runs under holds, cluster-wide

Allow(group, resources, verbs) == {group} \X resources \X verbs

Read  == {"get", "list", "watch"}
Write == {"create", "update", "patch", "delete"}

PrivilegedSCC == <<"securitycontextconstraints", "privileged">>

-----------------------------------------------------------------------------
(* The rules of the rendered roles. *)

DevicePluginRules ==
    Allow("", {"nodes"}, Read \cup {"patch", "update"}) \cup Allow("", {"configmaps", "pods"}, Read)

StatusUpdaterRules ==
    Allow("", {"nodes"}, Read \cup {"patch", "update"})
    \cup Allow("", {"configmaps"}, Read \cup Write)
    \cup Allow("", {"pods"}, Read \cup {"patch"})

MetricsExporterRules == Allow("", {"nodes", "configmaps", "pods"}, Read)

SCCRules == Allow("security.openshift.io", {PrivilegedSCC}, {"use"})

\* The rules of a role, and of the role a binding refers to: both have the
\* same name.
RulesNamed(prefix) ==
    CASE prefix = "fake-gpu-device-plugin"    -> DevicePluginRules
      [] prefix = "fake-gpu-status-updater"   -> StatusUpdaterRules
      [] prefix = "fake-gpu-metrics-exporter" -> MetricsExporterRules
      [] prefix = "fake-gpu-scc"              -> SCCRules

-----------------------------------------------------------------------------
(* The operator's own role, and what the API server makes of it. *)

\* (Mutant: the marker for the runtime classes is missing.)
ManagerRole_NoRuntimeClasses ==
    Allow("", {"nodes"}, Read \cup {"patch", "update"})
    \cup Allow("", {"configmaps", "serviceaccounts", "services"}, Read \cup Write)
    \cup Allow("apps", {"daemonsets", "deployments"}, Read \cup Write)
    \cup Allow("rbac.authorization.k8s.io", {"clusterroles", "clusterrolebindings"}, Read \cup Write)

\* The +kubebuilder:rbac markers, from which config/rbac/role.yaml is generated.
ManagerRole ==
    Allow("gpu.openshift.io", {"fakegpuconfigs"}, Read \cup Write)
    \cup Allow("gpu.openshift.io", {"fakegpuconfigs/status"}, {"get", "update", "patch"})
    \cup Allow("gpu.openshift.io", {"fakegpuconfigs/finalizers"}, {"update"})
    \cup Allow("", {"nodes"}, Read \cup {"patch", "update"})
    \cup Allow("", {"pods"}, Read)
    \cup Allow("", {"secrets"}, {"list"})
    \cup Allow("", {"configmaps", "serviceaccounts", "services"}, Read \cup Write)
    \cup Allow("apps", {"daemonsets", "deployments"}, Read \cup Write)
    \cup Allow("rbac.authorization.k8s.io", {"clusterroles", "clusterrolebindings"}, Read \cup Write)
    \cup Allow("node.k8s.io", {"runtimeclasses"}, Read \cup Write)
    \cup Allow("security.openshift.io", {PrivilegedSCC}, {"use"})

\* ManagerRole with the one verb the status updater's role has beyond it.
AmendedRole == ManagerRole \cup Allow("", {"pods"}, {"patch"})

\* The API group and the resource of a kind of children.
API(kind) ==
    CASE kind = "ServiceAccount"     -> <<"", "serviceaccounts">>
      [] kind = "ConfigMap"          -> <<"", "configmaps">>
      [] kind = "Service"            -> <<"", "services">>
      [] kind = "DaemonSet"          -> <<"apps", "daemonsets">>
      [] kind = "Deployment"         -> <<"apps", "deployments">>
      [] kind = "ClusterRole"        -> <<"rbac.authorization.k8s.io", "clusterroles">>
      [] kind = "ClusterRoleBinding" -> <<"rbac.authorization.k8s.io", "clusterrolebindings">>
      [] kind = "RuntimeClass"       -> <<"node.k8s.io", "runtimeclasses">>

Holds(verb, kind) == <<API(kind)[1], API(kind)[2], verb>> \in Grants

\* Nobody may write a role with more rules than they hold, or a binding to one
\* (unless they hold the verb escalate or bind, which no role here has).
Escalates(obj) ==
    obj.id[1] \in {"ClusterRole", "ClusterRoleBinding"} /\ ~(RulesNamed(obj.id[2]) \subseteq Grants)

Permitted(verb, obj) == Holds(verb, obj.id[1]) /\ ~Escalates(obj)
=============================================================================
