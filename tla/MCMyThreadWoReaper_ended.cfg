CONSTANTS
    t1 = t1  t2 = t2  c1 = c1  c2 = c2
    Threads = {t1}
    Clients = {c1}
    NULL = NULL
    MaxFail = 0
    Programs <- DetachTest
SPECIFICATION Spec
PROPERTIES DetachReleasesEnded
