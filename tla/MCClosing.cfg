CONSTANTS
    c1 = c1
    c2 = c2
    c3 = c3
    r1 = r1
    k1 = k1
    k2 = k2
    k3 = k3
    Key = {k1, k2, k3}
    Client = {c1, c2, c3}
    Replica = {r1}
    ReplicaOf <- MCReplicaOf
    JobOf <- MCJobOf
    Calendar = {c2}
    OnStart = {c3}
    TTL = {1}
    LeaseTTL = 1
    LockFaults = {"acquire", "release"}
    NoOne = NoOne
    NoKey = NoKey
    ToolID = {call1, call2}
    NoID = NoID
    Char = {"a", "b"}
    MaxArgs = 2
    Closer = {closer1, closer2}
    BufferSize = 1
    MaxBytes = 4
    MaxFiles = 1
    Large = {2, 4}
    Unencodable = {1}
    MaxEvents = 4
    MaxCrashes = 1
SPECIFICATION Spec
SYMMETRY CloserSymmetry
INVARIANTS
    NothingRunsAfterClose
    NoJobForgotten
    ToolCallsWhole
    CloseMeansOnDisk
    FilesAreSound
CHECK_DEADLOCK FALSE
