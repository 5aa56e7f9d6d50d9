CONSTANTS
    Task <- MCTask
    Cancellable = {}
    Address <- MCAddress
    Message <- MCMessage
    MaxNotifiers <- MCMaxNotifiers
    p1 = p1
    p2 = p2
    p3 = p3
    Publisher = {p1, p2, p3}
    Dispatcher = {d1}
    Replica = {r1}
    Supervisor = supervisor
    Topic = topic
    SourceOf <- TwoSources
    MOD = 1
    NWorkers = 2
    RunMayFail = TRUE
    NoAddress = NoAddress
    NoMessage = NoMessage
SPECIFICATION Spec
CONSTRAINT NamesDiffer
INVARIANTS PubSubTypeOK OwnReply NoPanic NoWorkerLeak ReplyAddressesReclaimed
PROPERTY OnlyUnarmedMissReply
SYMMETRY MCSymmetry
CHECK_DEADLOCK FALSE
