CONSTANTS
    c1 = c1
    c2 = c2
    r1 = r1
    r2 = r2
    k1 = k1
    Key = {k1}
    Client = {c1, c2}
    Replica = {r1, r2}
    ReplicaOf <- MCReplicaOf
    JobOf <- MCJobOf
    Calendar = {}
    OnStart = {c1}
    TTL = {1}
    LeaseTTL = 1
    LockFaults = {}
    NoOne = NoOne
    NoKey = NoKey
SPECIFICATION SchedSpec
INVARIANT
    NoOutlastedRunIsRepeated
CHECK_DEADLOCK FALSE
