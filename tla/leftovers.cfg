SPECIFICATION Spec
CONSTANTS
    Grants <- AmendedRole
    c1 = c1
    c2 = c2
    n1 = n1
    n2 = n2
    Nil = Nil
    UserLabels <- UserKeys
    RelatedImageRegistry = ""
    RelatedImageTag = ""
    Configs = {c1}
    Nodes = {n1}
    Specs <- LeanSpecs
    Offers <- AnySpec
    OnOpenShift = TRUE
    InitNodes <- OneWorker
    NodeLabellings <- Workers
    Relabels <- WorkerLabels
    Lagging = {}
    Faulty = {"delete"}
    Resyncs = FALSE
    Budgets <- Leftovers
INVARIANTS
    CleanedUp
CHECK_DEADLOCK FALSE
