CONSTANTS
    CacheKey = {k1, k2}
    Reader = {r1}
    Writer = {w1}
    Loader = loader
    Janitor = janitor
    MaxEntries = 1
    Lru = TRUE
    CacheTTL = 1
    MaxVersion = 1
    NoEntry = NoEntry
    Secret = {s}
    SecReader = {g1}
    SecHook = {hook}
    MaxChange = 3
    NoSecret = NoSecret
    LimKey = {q1, q2}
    Consult = {a1, a2}
    Sweeper = sweeper
    MaxLimiters = 1
    HeadroomDivisor = 16
    IdleTTL = 1
    MaxClock = 1
    NoLimiter = NoLimiter
    Proc = {"p1"}
    Ask = {ask1, ask2}
    Shared = FALSE
    MaxEdits = 2
    MaxBumps = 2
SPECIFICATION Spec
SYMMETRY KeySymmetry
INVARIANTS
    StaleOnlyByOverlap
    AnswerNeverOlder
    RotationsFollow
    BoundAtRest
    FreshAfterInvalidateAll
CHECK_DEADLOCK FALSE
