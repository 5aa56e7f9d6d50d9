CONSTANTS
    Handler = {a, b}
    Call = {c1, c2, c3}
    NrReplicas = 1
    NWorkers = 10
    MaxStarts = 2
    MaxSupervisors = 2
    Budget = 4
    None = None
SPECIFICATION Spec
INVARIANTS LifecycleTypeOK EveryTopicServed  TopicsBeforeCalls  NothingLostOnTheBus
CONSTRAINT OwnerLives
SYMMETRY MCSymmetry
CHECK_DEADLOCK FALSE
