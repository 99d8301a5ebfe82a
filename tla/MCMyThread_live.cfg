CONSTANTS
    t1 = t1  t2 = t2  c1 = c1  c2 = c2
    Threads = {t1, t2}
    Clients = {c1, c2}
    Reapers = {r1}
    NULL = NULL
    MaxFail = 0
    Programs <- Lifecycles
SPECIFICATION Spec
PROPERTIES KeepsPromise JoinReturns
