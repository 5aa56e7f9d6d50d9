CONSTANTS
    r1 = r1
    r2 = r2
    r3 = r3
    Request = {r1, r2, r3}
    Asks <- MixedRequests
    NrReplicas <- OneReplica
    NrRequests = 2
    Chunks = 2
    ChannelSize = 1
SPECIFICATION FairSpec
INVARIANTS GateTypeOK PermitsAccounted OkMeansDelivered RequestsAdvance
PROPERTY RequestsEnd
CHECK_DEADLOCK FALSE
