CONSTANTS
    Task <- MCTask
    Cancellable = {}
    Address <- MCAddress
    Message <- MCMessage
    MaxNotifiers <- MCMaxNotifiers
    p1 = p1
    p2 = p2
    p3 = p3
    Publisher = {p1, p2}
    Dispatcher = {}
    Replica = {r1}
    Supervisor = supervisor
    Topic = topic
    SourceOf <- SharedSource
    MOD = 2
    NWorkers = 10
    RunMayFail = FALSE
    NoAddress = NoAddress
    NoMessage = NoMessage
SPECIFICATION Spec
INVARIANT OwnReply
CHECK_DEADLOCK FALSE
