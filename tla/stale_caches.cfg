SPECIFICATION Spec
CONSTANTS
    Grants <- AmendedRole
    c1 = c1
    c2 = c2
    n1 = n1
    n2 = n2
    Nil = Nil
    UserLabels <- UserKeys
    RelatedImageRegistry = ""
    RelatedImageTag = ""
    Configs = {c1}
    Nodes = {n1}
    Specs <- LeanAndCustom
    Offers <- AnySpec
    OnOpenShift = FALSE
    InitNodes <- OneWorker
    NodeLabellings <- Workers
    Relabels <- WorkerLabels
    Lagging = {"FakeGPUConfig", "Node"}
    Faulty = {}
    Resyncs = FALSE
    Budgets <- StaleCaches
INVARIANTS
    TypeOK
    ProvisionsUnderFinalizer
    RestsOnlyWhenDone
PROPERTIES
    ImplementsLifecycle
    NoEditLost
CHECK_DEADLOCK FALSE
