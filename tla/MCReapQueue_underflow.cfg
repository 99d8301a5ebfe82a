CONSTANTS
    Threads = {t1, t2}
    Callers = {p1, p2}
    Reapers = {r1}
    NULL = NULL
    MaxFail = 0
SPECIFICATION Spec
INVARIANTS CountNonNegative
