CONSTANTS
    Caller = {c1, c2}
    BusRequest = {b1}
    Service = {s1, s2}
    NrReplicas = 1
    RedisMayFail = TRUE
SPECIFICATION Spec
INVARIANTS RedisTypeOK OwnRedisReply ReplyReachesCaller TakenInOrder
SYMMETRY MCSymmetry
CHECK_DEADLOCK FALSE
