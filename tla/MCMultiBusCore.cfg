CONSTANTS
    Task = {t1, t2}
    Cancellable = {t1}
    Address = {a1}
    Message = {m1, m2}
    NoAddress = NoAddress
    NoMessage = NoMessage
    NWorkers = 1
    MaxNotifiers = 2
SPECIFICATION FairBusSpec
INVARIANTS TypeOK WorkerAccounting LockHoldersMove
PROPERTIES ImplementsFifo OperationsFinish
CHECK_DEADLOCK FALSE
