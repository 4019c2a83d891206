CONSTANTS
    c1 = c1
    c2 = c2
    r1 = r1
    r2 = r2
    k1 = k1
    Key = {k1}
    Client = {c1, c2}
    Replica = {r1, r2}
    ReplicaOf <- MCReplicaOf
    JobOf <- MCJobOf
    Calendar = {c1}
    OnStart = {c2}
    TTL = {2}
    LeaseTTL = 2
    LockFaults = {"release"}
    NoOne = NoOne
    NoKey = NoKey
SPECIFICATION FairSchedSpec
INVARIANTS
    OverlapIsCounted
PROPERTIES
    JobKeepsRunning
    SchedulerStops
CHECK_DEADLOCK FALSE
