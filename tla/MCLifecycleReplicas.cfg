CONSTANTS
    Handler = {a}
    Call = {c1, c2}
    NrReplicas = 1
    NWorkers = 10
    MaxStarts = 1
    MaxSupervisors = 1
    Budget = 3
    None = None
SPECIFICATION Spec
INVARIANTS ReplicasBounded
CHECK_DEADLOCK FALSE
