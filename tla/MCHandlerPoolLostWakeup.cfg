CONSTANTS
    NrReplicas = 1
    MaxRequests = 3
    RunMayPanic = FALSE
SPECIFICATION FairSpec
PROPERTY TakenRequestRuns
CHECK_DEADLOCK FALSE
