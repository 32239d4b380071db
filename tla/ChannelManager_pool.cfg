SPECIFICATION Spec
CONSTANTS
    u1 = u1
    u2 = u2
    u3 = u3
    u4 = u4
    db1 = db1
    db2 = db2
    URLs = {u1, u2, u3, u4}
    Database <- MCDatabase
    Channels = {k1, k2, k3, k4}
    NoURL = NoURL
    ChannelExpireAge = 2
    ChannelCollectionTimer = 2
    MaxOpenConnectionCount = 2
    MaxOperationTime = 1
    MaxTime = 6
SYMMETRY Symmetry
INVARIANTS TypeOK PoolAccounted PoolAgeBounded ConnectionsBounded
CHECK_DEADLOCK FALSE
