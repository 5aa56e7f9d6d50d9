CONSTANTS
    Task = {t1, t2}
    Cancellable = {}
    Address = {a1}
    Message = {m1, m2}
    NoAddress = NoAddress
    NoMessage = NoMessage
    NWorkers = 1
    MaxNotifiers = 1
SPECIFICATION BusSpec
INVARIANT QueuesBounded
CHECK_DEADLOCK FALSE
