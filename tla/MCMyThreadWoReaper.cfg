CONSTANTS
    t1 = t1  t2 = t2  c1 = c1  c2 = c2
    Threads = {t1, t2}
    Clients = {c1, c2}
    NULL = NULL
    MaxFail = 1
    Programs <- CompetingClients
SPECIFICATION Spec
INVARIANTS TypeOK ReleasedOnce OnlyLateClaimsLeak JoinValue DeathHasCause
PROPERTIES ImplementsContract DetachedBeforeExitReleased FirstJoinerReturns
