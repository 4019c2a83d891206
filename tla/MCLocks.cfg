CONSTANTS
    Key = {k1, k2}
    Client = {c1, c2, c3}
    TTL = {1, 2}
    ScopedTTL = 2
    NoOne = NoOne
    NoKey = NoKey
    k1 = k1
    k2 = k2
    h1 = h1
    h2 = h2
    h3 = h3
    l1 = l1
    l2 = l2
    PgKey = {k1, k2}
    Handle = {h1, h2, h3}
    PgLocker = {l1, l2}
    LockerOf <- MCLockerOf
    PoolSize = 1
    PgTTL = 0
    NoHandle = NoHandle
SPECIFICATION Spec
INVARIANTS
    OverlapIsReported
PROPERTIES
    LeaseSpec
    WaiterReturns
    GivenUpIsFreed
CHECK_DEADLOCK FALSE
