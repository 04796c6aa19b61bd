SPECIFICATION Spec
CONSTANTS
    Grants <- ManagerRole
    c1 = c1
    c2 = c2
    n1 = n1
    Nil = Nil
    Configs = {c1, c2}
    Nodes = {n1}
    Specs <- ProbeSpecs
    Probes <- AllProbes
    UserLabels <- UserKeys
    RelatedImageRegistry = "quay.io/cluster"
    RelatedImageTag = ""
INVARIANTS
    PlanInOrder
    DaemonSetsHaveNodes
    DeletionCoversPlan
    PrivilegedHaveSCC
    RoleCoversCalls
    WatchCoversSelection
    ImagePriority
