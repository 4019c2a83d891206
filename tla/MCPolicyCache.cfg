CONSTANTS
    Proc = {"p1", "p2"}
    Ask = {a1, a2}
    Shared = TRUE
    MaxEdits = 1
    MaxBumps = 1
SPECIFICATION PolicySpec
INVARIANT FreshAfterInvalidateAll
CHECK_DEADLOCK FALSE
