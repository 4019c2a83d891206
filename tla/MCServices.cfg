CONSTANTS
    c1 = c1
    c2 = c2
    f1 = f1
    Key = {k1}
    Client = {c1, c2}
    TTL = {2}
    NoOne = NoOne
    NoKey = NoKey
    LockKey = k1
    LockTTL = 2
    InFlightTTL = 1
    RecordTTL = 1
    Fp <- MCFp
    FailOpen = TRUE
    Faults = {"store", "lock", "death", "close"}
    LeasesHold = FALSE
    Message = {a, b, c}
    Worker = {w1}
    MaxAttempts = 2
    DeadLetters = FALSE
    None = None
    Closer = {z1, z2}
    MaxRows = 2
    m1 = m1
    Stream = {s1, s2}
    Member = {m1}
    NoStream = NoStream
    MemberOf <- MCMemberOf
SPECIFICATION Spec
INVARIANT ClosedHoldsNothing
PROPERTIES
    NotWedged
    ShutdownCompletes
    AcceptedEnds
    RowsAreRead
    BrokenIsRemoved
CHECK_DEADLOCK FALSE
