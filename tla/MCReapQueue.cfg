CONSTANTS
    Threads = {t1, t2}
    Callers = {p1, p2}
    Reapers = {r1, r2}
    NULL = NULL
    MaxFail = 1
SPECIFICATION Spec
INVARIANTS TypeOK CountBalance NoLostWakeup OwnedOnce LostOnlyToFailure ReaperBound
PROPERTIES EventuallyReclaimed ReaperDrains
