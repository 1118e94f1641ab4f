SPECIFICATION Spec
CONSTANTS
    p1 = p1
    p2 = p2
    f1 = f1
    f2 = f2
    g1 = g1
    Proc = {p1, p2}
    File = {f1, f2, g1}
    ProcOf <- ProcOf3
    MaxFd = 3
    MaxFail = 2
INVARIANTS TypeOK LocksBacked GrantsWhenFree ReservedSeen LastCloseFrees
PROPERTY AtomicLock
