CONSTANTS
    t1 = t1  t2 = t2  c1 = c1  c2 = c2
    Threads = {t1, t2}
    Clients = {c1, c2}
    Reapers = {r1, r2}
    NULL = NULL
    MaxFail = 1
    Programs <- CompetingClients
SPECIFICATION Safe
SYMMETRY ReaperSymmetry
INVARIANTS TypeOK OwnershipProtocol DetachHandover ReleasedOnce JoinValue JoinerWoken
PROPERTIES ImplementsContract UsesQueue
