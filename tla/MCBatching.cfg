CONSTANTS
    c1 = c1
    c2 = c2
    c3 = c3
    k1 = k1
    k2 = k2
    t1 = t1
    t2 = t2
    Key = {k1, k2}
    Caller = {c1, c2, c3}
    KeyOf <- MCKeyOf
    BufKey = {k1, k2}
    BufCloser = {z1, z2}
    BufRun = run
    Taker = {t1, t2}
    Wanted <- MCWanted
    Closer = {z1, z2}
    Flusher = run
    MaxAdds = 3
SPECIFICATION Spec
INVARIANTS
    ReadYourWrite
    TakeExcludesFlush
PROPERTIES
    StoreNeverRegresses
    SubmitIsAnswered
    PendingIsFlushed
    TakeReturns
CHECK_DEADLOCK FALSE
