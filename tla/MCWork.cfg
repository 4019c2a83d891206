CONSTANTS
    c1 = c1
    c2 = c2
    c3 = c3
    f1 = f1
    f2 = f2
    Key = {k1}
    Client = {c1, c2, c3}
    TTL = {2}
    NoOne = NoOne
    NoKey = NoKey
    LockKey = k1
    LockTTL = 2
    InFlightTTL = 2
    RecordTTL = 2
    Fp <- MCFp
    FailOpen = FALSE
    Faults = {"store", "lock", "death"}
    LeasesHold = TRUE
    Message = {m1, m2, m3}
    Worker = {w1, w2}
    MaxAttempts = 2
    DeadLetters = TRUE
    None = None
    TopicCount = 3
    Reader = {r1, r2}
    NoReader = NoReader
    LogLength = 3
    Ticket = {t1, t2}
    NoTicket = NoTicket
    RedisTTL = {1, 3, 4}
    LongestTTL = 4
SPECIFICATION Spec
INVARIANTS
    ReplayFaithful
    DuplicateIsVisible
    DrainedOnReturn
    OwnedByOne
    AllOrNone
    NothingSkipped
    TrustedIsHeld
PROPERTY OneShotSpec
SYMMETRY Alike
CHECK_DEADLOCK FALSE
