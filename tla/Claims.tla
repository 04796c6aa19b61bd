------------------------------- MODULE Claims -------------------------------
(***************************************************************************)
(* What the README and the status messages of the repository say of the    *)
(* operator, where the code does otherwise.  Each is checked by a run in   *)
(* which TLC finds a behaviour of the code that contradicts it.            *)
(***************************************************************************)
EXTENDS Operator

Available(c) == cfg[c] # Nil /\ ~cfg[c].deleting /\ cfg[c].status.reason = "Reconciled"

\* README: "All child resources, node labels, and GPU capacity are cleaned up
\* automatically."  Once every config is gone and the operator rests, nothing it
\* wrote is left and no node carries a label that schedules its DaemonSets.
CleanedUp ==
    Quiescent /\ (\A c \in Configs : cfg[c] = Nil)
    => /\ \A id \in Ids : store[id] = Nil
       /\ \A n \in Nodes : node[n] # Nil =>
             \A k \in OperatorLabels \ {nodePoolLabel} : node[n][k] = Nil

\* README: "The operator finds matching nodes and labels them."  In the end a
\* node that a config selects carries that config's labels.
SelectedNodesLabelled ==
    \A c \in Configs :
        <>[](cfg[c] # Nil => \A n \in Selected(c) : node[n] = Labelled(node[n], c, cfg[c].spec))

\* The message of the Available condition, "Fake GPU resources deployed for %d
\* nodes": at rest, the nodes of an available config have their topology.
AvailableKeepsNodeTopologies ==
    Quiescent => \A c \in Configs : Available(c) => NodesServed(c)

\* The same message: at rest, the topology every component of an available
\* config reads has the config's pool.
AvailableHasTopology ==
    Quiescent => \A c \in Configs :
        Available(c) => store[<<"ConfigMap", "topology", Nil>>] = TopologyConfigMap(c, cfg[c].spec)

\* README: "RBAC, RuntimeClass, Services | Yes | Yes".  In the end a config has
\* its accounts, roles and bindings.
RBACDeployed ==
    \A c \in Configs :
        <>[](cfg[c] # Nil =>
                \A i \in DOMAIN AccountsAndRoles(c) :
                    store[AccountsAndRoles(c)[i].id] = AccountsAndRoles(c)[i])

\* README: "SCC grants | Manual | Automated".  On OpenShift an available config
\* has the binding that lets its pods run privileged.
SCCGranted ==
    OnOpenShift => \A c \in Configs :
        Available(c) => store[SCCClusterRoleBinding(c).id] = SCCClusterRoleBinding(c)
=============================================================================
