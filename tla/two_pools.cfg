SPECIFICATION FairSpec
CONSTANTS
    Grants <- AmendedRole
    c1 = c1
    c2 = c2
    n1 = n1
    n2 = n2
    Nil = Nil
    UserLabels <- UserKeys
    RelatedImageRegistry = ""
    RelatedImageTag = ""
    Configs = {c1, c2}
    Nodes = {n1, n2}
    Specs <- LeanAndInfra
    Offers <- OnePerConfig
    OnOpenShift = FALSE
    InitNodes <- WorkerInfra
    NodeLabellings <- Workers
    Relabels <- NoRelabels
    Lagging = {"ConfigMap"}
    Faulty = {}
    Resyncs = TRUE
    Budgets <- TwoPools
PROPERTIES
    AvailableMeansDeployed
    ChildrenIsolated
    NodesIsolated
    OwnPartsConverge
CHECK_DEADLOCK FALSE
