SPECIFICATION FairSpec
CONSTANTS
    Grants <- AmendedRole
    c1 = c1
    c2 = c2
    n1 = n1
    n2 = n2
    Nil = Nil
    UserLabels <- UserKeys
    RelatedImageRegistry = ""
    RelatedImageTag = ""
    Configs = {c1}
    Nodes = {n1}
    Specs <- LeanAndEmpty
    Offers <- AnySpec
    OnOpenShift = FALSE
    InitNodes <- NoNodes
    NodeLabellings <- Workers
    Relabels <- NoRelabels
    Lagging = {}
    Faulty = {"update", "write", "node", "status", "delete", "get", "list", "watch", "discovery"}
    Resyncs = TRUE
    Budgets <- Convergence
PROPERTIES
    Converges
    DeletionCompletes
CHECK_DEADLOCK FALSE
