CONSTANTS
    NrReplicas = 3
    MaxRequests = 6
    RunMayPanic = TRUE
SPECIFICATION FairSpec
INVARIANTS PoolTypeOK IdsPartitioned
PROPERTY WaitingSupervisorServed
CHECK_DEADLOCK FALSE
