SPECIFICATION FairSpec
CONSTANTS
    Nil = Nil
    Replicas = {r1, r2, r3}
    LeaderElect = TRUE
    LeaseDuration = 4
    RenewDeadline = 3
    Budget <- Disturbed
INVARIANTS
    OneActive
PROPERTIES
    RolloutCompletes
