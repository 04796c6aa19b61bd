SPECIFICATION Spec
CONSTANTS
    Grants <- AmendedRole
    c1 = c1
    c2 = c2
    n1 = n1
    n2 = n2
    Nil = Nil
    UserLabels <- UserKeys
    RelatedImageRegistry = ""
    RelatedImageTag = ""
    Configs = {c1, c2}
    Nodes = {n1, n2}
    Specs <- LeanAndInfra
    Offers <- OnePerConfig
    OnOpenShift = TRUE
    InitNodes <- WorkerInfra
    NodeLabellings <- Workers
    Relabels <- NoRelabels
    Lagging = {}
    Faulty = {}
    Resyncs = FALSE
    Budgets <- TwoPools
INVARIANTS
    AvailableKeepsNodeTopologies
CHECK_DEADLOCK FALSE
