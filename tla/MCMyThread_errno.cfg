CONSTANTS
    t1 = t1  t2 = t2  c1 = c1  c2 = c2
    Threads = {t1, t2}
    Clients = {c1}
    Reapers = {r1}
    NULL = NULL
    MaxFail = 0
    Programs <- ErrnoTest
SPECIFICATION Safe
INVARIANTS ErrnoKept
