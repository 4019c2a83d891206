CONSTANTS
    f1 = f1
    Key = {k1}
    Client = {c1, c2}
    TTL = {2}
    NoOne = NoOne
    NoKey = NoKey
    LockKey = k1
    LockTTL = 2
    InFlightTTL = 2
    RecordTTL = 2
    Fp <- MCFp
    FailOpen = FALSE
    Faults = {"lock"}
    LeasesHold = TRUE
SPECIFICATION IdemSpec
INVARIANT DuplicateOnlyIfClaimLost
CHECK_DEADLOCK FALSE
